---- MODULE Spec2Model ----
(***************************************************************************)
(* Offline-first expense tracker: the Local Store (Dexie tables), the      *)
(* Remote Store (Firestore collections) and the sync engine (SyncService,  *)
(* ExpenseService, BudgetDB) of one device.                                *)
(*                                                                         *)
(* Scheduling is cooperative: an asynchronous call runs until its next     *)
(* await.  One action of this model is the effect of one awaited store     *)
(* operation together with the synchronous code that follows it up to the  *)
(* next await.  Several calls can be in flight; each occupies one task.    *)
(***************************************************************************)
EXTENDS Integers, Sequences, FiniteSets, TLC

\* ------------------------------------------------------------- bounds
MaxOps == 2          \* operations started in one behaviour
MaxMounts == 2       \* times the application's effect is mounted
MaxFlips == 2        \* online / offline events delivered to the listeners
MaxBatches == 2      \* realtime batches delivered
MaxSyncs == 3        \* fullSync calls the two devices of a pair start between them
MaxBudgetOps == 4    \* Budget Engine calls started, expenses entered and days
                     \*   passed in one behaviour

Tasks == {"t1", "t2"}                \* calls that can be in flight at once
NoTask == "none"
Owners == {"u1", "u2"}               \* userId values
SignedIn == {"u1"}                   \* the owner of the running session
IdSeq == <<"a", "b", "m", "y", "z">> \* record ids, in primary-key order
Ids == {IdSeq[i] : i \in 1..Len(IdSeq)}
ExpenseIds == {"a", "b"}             \* expense ids of the signed-in owner
BudgetIds == {"m"}                   \* budget ids of the signed-in owner
Vals == {1, 2}                       \* the user-editable fields of a record
NewVals == {1}                       \* ... of a record this device creates
OtherVals == {2}                     \* ... of a document another device writes
Kinds == {"expenses", "budgets"}     \* Dexie tables / Firestore collections

VARIABLES
  local,            \* local[k]: Dexie table k, a function id -> record
  remote,           \* remote[k]: Firestore collection k, id -> document
  syncInProgress,   \* SyncService.syncInProgress
  online,           \* navigator.onLine
  now,              \* the wall clock read by new Date(): it advances by one
                    \*   between two operations
  task,             \* task[t]: the call in flight on t, its position and locals
  nops,             \* operations started so far
  used,             \* used[k]: ids uuidv4 has already handed out
  dirty,            \* history: dirty[k] = ids mutated locally since the last
                    \*   remote write of their current field values
  quiet,            \* history: owners whose last expense push uploaded every
                    \*   record it read, with no local mutation since it began
  deleted,          \* history: deleted.offline = expense ids the user deleted
                    \*   while offline and a remote copy existed;
                    \*   deleted.propagated = ids whose deleteDoc succeeded;
                    \*   deleted.remotely = ids another device deleted remotely
  mounted,          \* MainApp's effect is active: its 'online' listener is registered
  onlineListeners,  \* window 'online' listeners registered by setupAutoSync
  listeners,        \* SyncService.listeners: subscriptions held for cleanup
  subscriptions,    \* realtime subscriptions (onSnapshot) not yet cancelled
  timers,           \* pending setTimeout callbacks of the auto-sync listeners
  rt,               \* the realtime batch handler in flight, if any
  view,             \* the documents of the query as last reported to the
                    \*   subscription: snapshot.docChanges() is the difference
                    \*   between it and the collection
  hist,             \* history of the session's events
  limits,           \* db.budgets as the Budget Engine reads it: id -> BudgetLimit
  alerts,           \* db.alerts: the set of BudgetAlert records
  expenses,         \* db.expenses as the Budget Engine reads it: the rows
                    \*   [userId, amount, category, date] in insertion order,
                    \*   date being the calendar day the form's YYYY-MM-DD names
  clock,            \* the local time new Date() returns, in hours
  zone,             \* the device's time-zone offset: local time - UTC, in hours
  ev,               \* ev[e]: the checkBudgetsAndCreateAlerts call in flight on e,
                    \*   its position and locals; history: ev[e].undisturbed =
                    \*   no other call ran and no time passed since it began,
                    \*   ev[e].stored = the alerts it has stored
  del,              \* the deleteBudget call in flight, if any
  bhist,            \* history of the Budget Engine's events
  peer              \* a second device of the same owner: its Local Store,
                    \*   its SyncService.syncInProgress, its calls in flight;
                    \*   peer.dev names the device the other variables
                    \*   describe; history: peer.log = the fullSync calls the
                    \*   two devices completed, in order, peer.overlap = both
                    \*   devices had a call in flight at once

bvars == <<limits, alerts, expenses, clock, zone, ev, del, bhist>>

appvars == <<mounted, onlineListeners, listeners, subscriptions, timers, rt, view, hist,
             bvars, peer>>

vars == <<local, remote, syncInProgress, online, now, task, nops, used, dirty, quiet,
          deleted, appvars>>

syncvars == <<local, remote, syncInProgress, online, now, task, nops, used, dirty, quiet,
              deleted, mounted, onlineListeners, listeners, subscriptions, timers, rt,
              view, hist, peer>>

\* ------------------------------------------------------------- tables
EmptyTbl == [i \in {} |-> 0]

Put(tbl, r) == [i \in DOMAIN tbl \cup {r.id} |-> IF i = r.id THEN r ELSE tbl[i]]

Remove(tbl, id) == [i \in DOMAIN tbl \ {id} |-> tbl[i]]

Rows(tbl) == {tbl[i] : i \in DOMAIN tbl}

IdsOf(S) == {r.id : r \in S}

IdIndex(id) == CHOOSE i \in 1..Len(IdSeq) : IdSeq[i] = id

RECURSIVE SortById(_)
SortById(S) ==
  IF S = {} THEN <<>>
  ELSE LET r == CHOOSE x \in S : \A y \in S : IdIndex(x.id) <= IdIndex(y.id)
       IN <<r>> \o SortById(S \ {r})

\* faulty variant: a record created as already synced
NewRecordSynced(id, u, v, t) ==
  [id |-> id, userId |-> u, val |-> v, updatedAt |-> t, synced |-> TRUE]

NewRecord(id, u, v, t) ==
  [id |-> id, userId |-> u, val |-> v, updatedAt |-> t, synced |-> FALSE]

\* faulty variant: the query without its where('userId') clause
getExpensesOfAll(k, u) == Rows(local[k])

\* db.<table>.where('userId').equals(userId).toArray()
getExpenses(k, u) == {r \in Rows(local[k]) : r.userId = u}

\* db.<table>.where('userId').equals(userId).and(r => !r.synced).toArray()
getUnsyncedExpenses(k, u) == SortById({r \in getExpenses(k, u) : ~r.synced})

\* ExpenseService.getSyncStatus: the length of getUnsyncedExpenses(userId),
\* and SyncService.isOnline()
getSyncStatus(u) ==
  [unsyncedCount |-> Len(getUnsyncedExpenses("expenses", u)), isOnline |-> online]

\* ExpenseService.getExpenseById: ExpenseDB.getExpenses('') then find by id
getExpenseById(id) == {r \in getExpenses("expenses", "") : r.id = id}

\* ------------------------------------------------------------- the code's decisions
\* faulty variant: the guard is never taken
NeverSkip(sip) == FALSE

\* syncToFirebase: if (this.syncInProgress) return;
SkipPush(sip) == sip

\* faulty variant: the record uploaded with the flag it has locally
pushAsIs(r) == r

\* syncToFirebase / syncBudgetsToFirebase: setDoc(doc(db, k, r.id), {...r, synced: true})
pushDocument(r) == [r EXCEPT !.synced = TRUE]

\* faulty variant: markAsSynced outside the try, run whether or not setDoc threw
MarkAlways(ok) == TRUE

\* the per-record try/catch of the push loop: markAsSynced runs only when
\* setDoc did not throw
MarkAfterWrite(ok) == ok

\* faulty variant: the first failure ends the loop
AbortOnFailure(rest) == <<>>

\* the catch of the push loop counts the failure and the for loop goes on
\* with the records that are left
AfterFailure(rest) == rest

\* faulty variant: the flag is not stored
markNothing(tbl, id) == tbl

\* ExpenseDB.markAsSynced / BudgetDB.markBudgetAsSynced: update(id, {synced: true});
\* Dexie's update of a missing key changes nothing
markAsSynced(tbl, id) ==
  IF id \in DOMAIN tbl THEN [tbl EXCEPT ![id].synced = TRUE] ELSE tbl

\* faulty variant: the existence test inverted
pullPresent(fetched, localIds) == {r \in fetched : r.id \in localIds}

\* syncFromFirebase: if (!localExpenseIds.has(firebaseExpense.id))
pullMissing(fetched, localIds) == {r \in fetched : r.id \notin localIds}

\* faulty variant: the query made with an empty userId
remoteQueryNoOwner(coll, u) == {r \in Rows(coll) : r.userId = ""}

\* syncFromFirebase: getDocs(query(ref, where('userId', '==', userId), ...))
remoteQuery(coll, u) == {r \in Rows(coll) : r.userId = u}

\* syncFromFirebase: addExpense({...firebaseExpense, synced: true})
pullRecord(r) == [r EXCEPT !.synced = TRUE]

\* faulty variant: the update leaves the sync flag as it was
updateKeepsSynced(r, v, t) == [r EXCEPT !.val = v, !.updatedAt = t]

\* ExpenseService.updateExpense: {...updates, updatedAt: now, synced: false}
updateExpenseData(r, v, t) == [r EXCEPT !.val = v, !.updatedAt = t, !.synced = FALSE]

\* BudgetDB.updateBudget: {...updates, updatedAt: now, synced: false}
updateBudgetData(r, v, t) == [r EXCEPT !.val = v, !.updatedAt = t, !.synced = FALSE]

\* faulty variant: the remote delete is issued whatever the connectivity
deleteRemotelyAlways(onl) == TRUE

\* SyncService.deleteExpense: if (this.isOnline()) await deleteDoc(...)
deleteRemotely(onl) == onl

\* faulty variant: the pushes before the pulls
PushFirstSteps == <<"pushE", "pushB", "pullE", "pullB">>

\* SyncService.fullSync: the four awaited calls, in order
FullSyncSteps == <<"pullE", "pullB", "pushE", "pushB">>

Procs == {"pullE", "pullB", "pushE", "pushB"}

KindOf(p) == IF p \in {"pullE", "pushE"} THEN "expenses" ELSE "budgets"

PushPcs == {"pushRead", "pushWrite", "pushMark"}
PullPcs == {"pullFetch", "pullLocal", "pullAdd"}

\* ------------------------------------------------------------- tasks
\* A task is one asynchronous call: op is the public operation, pc the await
\* it is suspended at.  The fields after res are history: what the call's
\* last push, pull and delete did; gone0 holds the ids already deleted offline
\* when a fullSync began with the device online, unsynced0 the owner's unsynced
\* expenses when an auto-sync fullSync began.
IdleTask ==
  [op |-> "none", pc |-> "idle", user |-> "", kind |-> "expenses", phase |-> 0,
   id |-> "", snap |-> <<>>, todo |-> {}, res |-> "none",
   ran |-> <<>>, raised |-> "",
   skipped |-> FALSE, read |-> {}, readQuiet |-> FALSE, tried |-> {},
   wrote |-> {}, marked |-> {}, failed |-> {}, mut |-> FALSE, pushes |-> 0,
   pL0 |-> EmptyTbl, pR |-> {}, pAfter |-> EmptyTbl, pClean |-> TRUE, pRes |-> "none",
   onl |-> "none", rdel |-> FALSE, wasSynced |-> FALSE,
   caller |-> "", gone0 |-> {}, unsynced0 |-> {}]

Fresh(op, u) == [IdleTask EXCEPT !.op = op, !.user = u]

Done(tk, res) == [tk EXCEPT !.pc = "done", !.res = res]

Free(t) == task[t].pc \in {"idle", "done"}

\* a new call takes the first free task
CanStart(t) ==
  /\ nops < MaxOps
  /\ Free(t)
  /\ \A s \in Tasks : Free(s) => (t = "t1" \/ s # "t1")

\* faulty variant: a flag per owner, set only by a push for the same userId
flagOfOwner(sip, u) ==
  sip /\ \E x \in Tasks :
           task[x].pc \in PushPcs /\ task[x].kind = "expenses" /\ task[x].user = u

\* private static syncInProgress: one field of the class, read by every call
\* of syncToFirebase whatever its userId
flagSeenBy(sip, u) == sip

\* st = [tk, sip, q]: a task, SyncService.syncInProgress and quiet, threaded
\* through the synchronous code that runs between two awaits.
RECURSIVE Enter(_, _), Return(_, _)

\* the call of one of the four sync procedures, up to its first await
Enter(p, st) ==
  LET tk == [st.tk EXCEPT !.ran = Append(@, p), !.kind = KindOf(p)] IN
  IF p = "pushE" /\ SkipPush(flagSeenBy(st.sip, tk.user))
  THEN Return([st EXCEPT !.tk = [tk EXCEPT !.skipped = TRUE]], TRUE)
  ELSE IF p \in {"pushE", "pushB"}
  THEN [st EXCEPT
          !.tk = [tk EXCEPT !.pc = "pushRead", !.skipped = FALSE, !.read = {},
                            !.readQuiet = FALSE, !.tried = {}, !.wrote = {},
                            !.marked = {}, !.failed = {}, !.mut = FALSE],
          !.sip = IF p = "pushE" THEN TRUE ELSE @]
  ELSE [st EXCEPT
          !.tk = [tk EXCEPT !.pc = "pullFetch", !.pL0 = local[KindOf(p)], !.pR = {},
                            !.pAfter = EmptyTbl, !.pClean = TRUE, !.pRes = "none"]]

\* the caller's code after an awaited sync procedure returned (ok) or threw
Return(st, ok) ==
  LET tk == st.tk IN
  IF tk.op = "fullSync"
  THEN IF ~ok THEN [st EXCEPT !.tk = Done([tk EXCEPT !.raised = tk.ran[Len(tk.ran)]], "err")]
       ELSE IF tk.phase < Len(FullSyncSteps)
       THEN Enter(FullSyncSteps[tk.phase + 1], [st EXCEPT !.tk.phase = @ + 1])
       ELSE IF tk.caller = "initializeSync"
       THEN [st EXCEPT !.tk.pc = "initSetup"]
       ELSE [st EXCEPT !.tk = Done(tk, "ok")]
  ELSE IF tk.op \in {"add", "update"}
  THEN [st EXCEPT !.tk = Done(tk, "ok")]
  ELSE [st EXCEPT !.tk = Done(tk, IF ok THEN "ok" ELSE "err")]

\* faulty variant: the flag is left as the push found it
flagKept(sip) == sip

\* syncToFirebase: finally { this.syncInProgress = false }
flagAfterPush(sip) == FALSE

\* the end of a push: the finally of syncToFirebase clears the flag
ExitPush(st) ==
  LET tk == st.tk
      e == tk.kind = "expenses"
      clean == tk.failed = {} /\ ~tk.mut
  IN Return([st EXCEPT
               !.tk.pushes = @ + 1,
               !.sip = IF e THEN flagAfterPush(@) ELSE @,
               !.q = IF ~e THEN @ ELSE IF clean THEN @ \cup {tk.user} ELSE @ \ {tk.user}],
            TRUE)

\* a push whose read of the unsynced records rejected: the outer catch
\* rethrows, and the finally of syncToFirebase clears the flag on the way out
RaisePush(st) ==
  LET tk == st.tk
      e == tk.kind = "expenses"
  IN Return([st EXCEPT
               !.tk.pushes = @ + 1,
               !.tk.snap = <<>>,
               !.sip = IF e THEN flagAfterPush(@) ELSE @,
               !.q = IF e THEN @ \ {tk.user} ELSE @],
            FALSE)

\* the push loop moves to the next record of the snapshot, or ends
Advance(st, rest) ==
  IF rest = <<>> THEN ExitPush([st EXCEPT !.tk.snap = <<>>])
  ELSE [st EXCEPT !.tk.snap = rest, !.tk.pc = "pushWrite"]

\* the end of a pull: after is the local table it leaves
ExitPull(st, ok, after) ==
  Return([st EXCEPT !.tk.pRes = IF ok THEN "ok" ELSE "err", !.tk.pAfter = after,
                    !.tk.todo = {}], ok)

St(tk) == [tk |-> tk, sip |-> syncInProgress, q |-> quiet]

\* history bookkeeping: task t (or NoTask) changed table k for owner u
Disturb(tf, t, k, u, byMark) ==
  [x \in Tasks |->
     IF x = t THEN tf[x]
     ELSE [tf[x] EXCEPT
             !.pClean = IF tf[x].pc \in PullPcs /\ tf[x].kind = k THEN FALSE ELSE @,
             !.mut = IF tf[x].pc \in PushPcs /\ tf[x].kind = k /\ tf[x].user = u /\ ~byMark
                     THEN TRUE ELSE @]]

\* history bookkeeping: document d was written to collection k
Written(k, d) ==
  IF d.id \in DOMAIN local[k] /\ pushDocument(local[k][d.id]) = pushDocument(d)
  THEN [dirty EXCEPT ![k] = @ \ {d.id}] ELSE dirty

Commit(t, st, k, u, byMark) ==
  /\ task' = Disturb([task EXCEPT ![t] = st.tk], t, k, u, byMark)
  /\ syncInProgress' = st.sip
  /\ quiet' = st.q

Keep(t, st) ==
  /\ task' = [task EXCEPT ![t] = st.tk]
  /\ syncInProgress' = st.sip
  /\ quiet' = st.q

KindIds(k) == IF k = "expenses" THEN ExpenseIds ELSE BudgetIds

FreshId(k) == CHOOSE id \in KindIds(k) \ used[k] :
                \A other \in KindIds(k) \ used[k] : IdIndex(id) <= IdIndex(other)

\* an operation starts: one more operation, and the clock has advanced
Started ==
  /\ nops' = nops + 1
  /\ now' = now + 1

Begin(t, st, k, u) == Commit(t, st, k, u, FALSE)

TypeOK ==
  /\ \A k \in Kinds : DOMAIN local[k] \subseteq Ids /\ DOMAIN remote[k] \subseteq Ids
  /\ syncInProgress \in BOOLEAN
  /\ online \in BOOLEAN
  /\ now \in 0..MaxOps
  /\ nops \in 0..MaxOps
  /\ quiet \subseteq Owners
  /\ deleted.offline \subseteq ExpenseIds /\ deleted.propagated \subseteq ExpenseIds
  /\ deleted.remotely \subseteq ExpenseIds
  /\ mounted \in BOOLEAN
  /\ onlineListeners \in Nat /\ listeners \in Nat /\ subscriptions \in Nat
  /\ timers \in Nat
  /\ rt.pc \in {"idle", "rtGet", "rtAdd", "rtDel"}

\* The stores outlive the page: when the module is loaded (syncInProgress =
\* false, nothing in flight) they hold what earlier sessions left.  Expense z
\* and the remote expense y belong to another owner.  Expense a of the
\* signed-in owner was created offline and never uploaded, or was uploaded and
\* then overwritten remotely by another device, or was created by another
\* device and never pulled.  Budget m was created by another device and never
\* pulled, or does not exist yet.
Stored(id, u, v, synced) == [NewRecord(id, u, v, 0) EXCEPT !.synced = synced]

NoneDeleted == [offline |-> {}, propagated |-> {}, remotely |-> {}]

\* no realtime batch is being handled; hasChanges is the handler's local
\* variable; done and updates are history: what the handler did with each
\* change of the last batch, and how often it called onUpdate for it
IdleRt == [pc |-> "idle", user |-> "", batch |-> <<>>, hasChanges |-> FALSE,
           done |-> <<>>, updates |-> 0]

\* hist.status: the last call of getSyncStatus, whether its Local Store read
\* failed, and what it handed to its caller
NoStatus == [res |-> "none", failed |-> FALSE, unsyncedCount |-> 0, isOnline |-> FALSE]

NoHist == [mounts |-> 0, cleanups |-> 0, flips |-> 0, batches |-> 0,
           status |-> NoStatus]

\* no second device
NoPeer ==
  [dev |-> "A", local |-> [k \in {"expenses", "budgets"} |-> EmptyTbl],
   syncInProgress |-> FALSE, task |-> [t \in Tasks |-> IdleTask], now |-> 0,
   nops |-> 0, dirty |-> [k \in {"expenses", "budgets"} |-> {}], quiet |-> {},
   log |-> <<>>, overlap |-> FALSE]

\* ---- the Budget Engine's records
\* Time is counted in hours; hour 0 is 00:00 local time on a Sunday that is
\* the 1st of January, which is day 0.  A month is taken as 31 days and a year
\* as 365.
Evals == {"e1", "e2"}                \* evaluations that can be in flight at once
LimitSeq == <<"g", "h", "k">>        \* budget ids, in primary-key order
LimitIds == {LimitSeq[i] : i \in 1..Len(LimitSeq)}
Categories == {"food", "fun"}
AlertTypes == {"exceeded", "warning", "approaching"}

Limit(id, u, amount, period, category, enabled) ==
  [id |-> id, userId |-> u, amount |-> amount, period |-> period,
   category |-> category, enabled |-> enabled, warningThreshold |-> 80]

NoLimit == Limit("", "", 0, "", "", FALSE)

Alert(id, b, type, pct, spent, at) ==
  [id |-> id, budgetId |-> b.id, userId |-> b.userId, type |-> type,
   message |-> <<type, pct>>, currentAmount |-> spent, budgetAmount |-> b.amount,
   percentage |-> pct, period |-> b.period, category |-> b.category,
   createdAt |-> at, dismissed |-> FALSE]

NoAlert == Alert(0, NoLimit, "", 0, 0, 0)

IdleEval ==
  [pc |-> "idle", user |-> "", queue |-> <<>>, budget |-> NoLimit,
   alertType |-> "none", cutoff |-> 0, alert |-> NoAlert, newAlerts |-> <<>>,
   res |-> "none", undisturbed |-> TRUE, stored |-> <<>>]

IdleDel == [pc |-> "idle", id |-> "", res |-> "none"]

NoBHist == [ops |-> 0, made |-> 3]

\* the Budget Engine at rest, with no budget, expense or alert
BudgetIdle ==
  /\ limits = EmptyTbl
  /\ alerts = {}
  /\ expenses = <<>>
  /\ clock = 0
  /\ zone = 0
  /\ ev = [e \in Evals |-> IdleEval]
  /\ del = IdleDel
  /\ bhist = NoBHist

InitExpenses ==
  {[l |-> Put(EmptyTbl, Stored("a", "u1", 1, FALSE)), r |-> EmptyTbl],
   [l |-> Put(EmptyTbl, Stored("a", "u1", 1, TRUE)),
    r |-> Put(EmptyTbl, Stored("a", "u1", 2, TRUE))],
   [l |-> EmptyTbl, r |-> Put(EmptyTbl, Stored("a", "u1", 2, TRUE))]}

Init ==
  /\ \E ie \in InitExpenses, mRemote \in BOOLEAN :
       LET le == ie.l
           re == ie.r
           rb == IF mRemote THEN Put(EmptyTbl, Stored("m", "u1", 2, TRUE)) ELSE EmptyTbl
       IN
       /\ local = [k \in Kinds |->
                     IF k = "expenses" THEN Put(le, Stored("z", "u2", 1, FALSE))
                     ELSE EmptyTbl]
       /\ remote = [k \in Kinds |->
                      IF k = "expenses" THEN Put(re, Stored("y", "u2", 2, TRUE)) ELSE rb]
       /\ used = [k \in Kinds |->
                    IF k = "expenses" THEN DOMAIN le \cup DOMAIN re ELSE DOMAIN rb]
       /\ dirty = [k \in Kinds |->
                     IF k = "expenses"
                     THEN {"z"} \cup {i \in DOMAIN le : ~le[i].synced}
                     ELSE {}]
  /\ syncInProgress = FALSE
  /\ online \in BOOLEAN
  /\ now = 0
  /\ task = [t \in Tasks |-> IdleTask]
  /\ nops = 0
  /\ quiet = {}
  /\ deleted = NoneDeleted
  /\ mounted = FALSE
  /\ onlineListeners = 0 /\ listeners = 0 /\ subscriptions = 0 /\ timers = 0
  /\ rt = IdleRt
  /\ view = EmptyTbl
  /\ hist = NoHist
  /\ peer = NoPeer
  /\ BudgetIdle

\* ------------------------------------------------------------- Expense Service
\* ExpenseService.addExpense: local add, then syncToFirebase if online
AddExpense(t, u, v) ==
  /\ CanStart(t)
  /\ used["expenses"] # ExpenseIds
  /\ LET id == FreshId("expenses")
         tk == [Fresh("add", u) EXCEPT !.id = id]
         st0 == [tk |-> tk, sip |-> syncInProgress, q |-> quiet \ {u}]
         st == IF online THEN Enter("pushE", st0) ELSE [st0 EXCEPT !.tk = Done(tk, "ok")]
     IN /\ local' = [local EXCEPT !["expenses"] = Put(@, NewRecord(id, u, v, now))]
        /\ used' = [used EXCEPT !["expenses"] = @ \cup {id}]
        /\ dirty' = [dirty EXCEPT !["expenses"] = @ \cup {id}]
        /\ Begin(t, st, "expenses", u)
  /\ Started
  /\ UNCHANGED <<remote, online, deleted, appvars>>

\* ExpenseService.updateExpense: local update, then getExpenseById if online
UpdateExpense(t, id, v) ==
  /\ CanStart(t)
  /\ id \in DOMAIN local["expenses"]
  /\ local["expenses"][id].userId \in SignedIn      \* the UI lists the owner's records
  /\ LET r == local["expenses"][id]
         tk == [Fresh("update", r.userId) EXCEPT !.id = id, !.wasSynced = r.synced]
         st0 == [tk |-> tk, sip |-> syncInProgress, q |-> quiet \ {r.userId}]
         st == IF online THEN [st0 EXCEPT !.tk.pc = "updGet"]
               ELSE [st0 EXCEPT !.tk = Done(tk, "ok")]
     IN /\ local' = [local EXCEPT !["expenses"][id] = updateExpenseData(r, v, now)]
        /\ dirty' = [dirty EXCEPT !["expenses"] = @ \cup {id}]
        /\ Begin(t, st, "expenses", r.userId)
  /\ Started
  /\ UNCHANGED <<remote, online, used, deleted, appvars>>

\* ExpenseService.updateExpense after getExpenseById: push for the owner found
UpdGet(t) ==
  /\ task[t].pc = "updGet"
  /\ LET found == getExpenseById(task[t].id)
         st == IF found # {}
               THEN Enter("pushE", St([task[t] EXCEPT
                                         !.user = (CHOOSE r \in found : TRUE).userId]))
               ELSE St(Done(task[t], "ok"))
     IN Keep(t, st)
  /\ UNCHANGED <<local, remote, online, now, nops, used, dirty, deleted, appvars>>

\* ExpenseService.deleteExpense -> SyncService.deleteExpense: local delete,
\* then the remote delete if online
DeleteExpense(t, id) ==
  /\ CanStart(t)
  /\ id \in DOMAIN local["expenses"]
  /\ local["expenses"][id].userId \in SignedIn      \* the UI lists the owner's records
  /\ LET r == local["expenses"][id]
         tk == [Fresh("delete", r.userId) EXCEPT
                  !.id = id, !.onl = IF online THEN "on" ELSE "off"]
         st0 == [tk |-> tk, sip |-> syncInProgress, q |-> quiet \ {r.userId}]
         st == IF deleteRemotely(online) THEN [st0 EXCEPT !.tk.pc = "delRemote"]
               ELSE [st0 EXCEPT !.tk = Done(tk, "ok")]
     IN /\ local' = [local EXCEPT !["expenses"] = Remove(@, id)]
        /\ dirty' = [dirty EXCEPT !["expenses"] = @ \ {id}]
        /\ deleted' = IF ~online /\ id \in DOMAIN remote["expenses"]
                      THEN [deleted EXCEPT !.offline = @ \cup {id}] ELSE deleted
        /\ Begin(t, st, "expenses", r.userId)
  /\ Started
  /\ UNCHANGED <<remote, online, used, appvars>>

\* SyncService.deleteExpense: await deleteDoc(doc(db, 'expenses', id)), or its throw
DelRemote(t) ==
  /\ task[t].pc = "delRemote"
  /\ \E ok \in BOOLEAN :
       /\ remote' = IF ok THEN [remote EXCEPT !["expenses"] = Remove(@, task[t].id)]
                    ELSE remote
       /\ deleted' = IF ok THEN [deleted EXCEPT !.propagated = @ \cup {task[t].id}]
                      ELSE deleted
       /\ task' = [task EXCEPT ![t] = Done([@ EXCEPT !.rdel = TRUE],
                                           IF ok THEN "ok" ELSE "err")]
  /\ UNCHANGED <<local, syncInProgress, online, now, nops, used, dirty, quiet, appvars>>

\* ------------------------------------------------------------- Budget Service
\* BudgetService.createBudget -> BudgetDB.addBudget
CreateBudget(u, v) ==
  /\ nops < MaxOps
  /\ used["budgets"] # BudgetIds
  /\ LET id == FreshId("budgets")
     IN /\ local' = [local EXCEPT !["budgets"] = Put(@, NewRecord(id, u, v, now))]
        /\ used' = [used EXCEPT !["budgets"] = @ \cup {id}]
        /\ dirty' = [dirty EXCEPT !["budgets"] = @ \cup {id}]
        /\ task' = Disturb(task, NoTask, "budgets", u, FALSE)
  /\ Started
  /\ UNCHANGED <<remote, syncInProgress, online, quiet, deleted, appvars>>

\* BudgetService.updateBudget -> BudgetDB.updateBudget
UpdateBudget(id, v) ==
  /\ nops < MaxOps
  /\ id \in DOMAIN local["budgets"]
  /\ local["budgets"][id].userId \in SignedIn       \* the UI lists the owner's records
  /\ LET r == local["budgets"][id]
     IN /\ local' = [local EXCEPT !["budgets"][id] = updateBudgetData(r, v, now)]
        /\ dirty' = [dirty EXCEPT !["budgets"] = @ \cup {id}]
        /\ task' = Disturb(task, NoTask, "budgets", r.userId, FALSE)
  /\ Started
  /\ UNCHANGED <<remote, syncInProgress, online, used, quiet, deleted, appvars>>

\* ------------------------------------------------------------- Sync Engine
\* a direct call of syncFromFirebase, syncBudgetsFromFirebase, syncToFirebase
\* or syncBudgetsToFirebase
StartSync(t, u, p) ==
  /\ CanStart(t)
  /\ Keep(t, Enter(p, St(Fresh(p, u))))
  /\ Started
  /\ UNCHANGED <<local, remote, online, used, dirty, deleted, appvars>>

\* SyncService.fullSync
StartFullSync(t, u) ==
  /\ CanStart(t)
  /\ Keep(t, Enter(FullSyncSteps[1],
                   St([Fresh("fullSync", u) EXCEPT
                         !.phase = 1,
                         !.gone0 = IF online THEN deleted.offline ELSE {}])))
  /\ Started
  /\ UNCHANGED <<local, remote, online, used, dirty, deleted, appvars>>

\* faulty variant: manualSync goes on whatever the connectivity
syncAlways(onl) == TRUE

\* ExpenseService.manualSync: if (!SyncService.isOnline()) throw
syncAllowed(onl) == onl

\* ExpenseService.manualSync: throws 'Cannot sync while offline', or awaits
\* fullSync and returns or throws as it does
ManualSync(t, u) ==
  IF syncAllowed(online)
  THEN StartFullSync(t, u)
  ELSE /\ CanStart(t)
       /\ task' = [task EXCEPT
                     ![t] = Done([Fresh("manualSync", u) EXCEPT !.raised = "offline"],
                                 "err")]
       /\ Started
       /\ UNCHANGED <<local, remote, syncInProgress, online, used, dirty, quiet,
                      deleted, appvars>>

\* push: await getUnsyncedExpenses / getUnsyncedBudgets; return when none
PushRead(t) ==
  /\ task[t].pc = "pushRead"
  /\ LET tk == task[t]
         snap == getUnsyncedExpenses(tk.kind, tk.user)
         tk1 == [tk EXCEPT !.read = IdsOf(Rows(local[tk.kind])) \cap
                                      {snap[i].id : i \in 1..Len(snap)},
                           !.readQuiet = tk.kind = "expenses" /\ tk.user \in quiet]
     IN Keep(t, Advance(St(tk1), snap))
  /\ UNCHANGED <<local, remote, online, now, nops, used, dirty, deleted, appvars>>

\* push: await setDoc(...) of the current record, which succeeds or throws
PushWrite(t) ==
  /\ task[t].pc = "pushWrite"
  /\ \E ok \in BOOLEAN :
       LET tk == task[t]
           cur == Head(tk.snap)
           tk1 == [tk EXCEPT !.tried = @ \cup {cur.id},
                             !.wrote = IF ok THEN @ \cup {cur.id} ELSE @,
                             !.failed = IF ok THEN @ ELSE @ \cup {cur.id}]
       IN /\ remote' = IF ok THEN [remote EXCEPT ![tk.kind] = Put(@, pushDocument(cur))]
                       ELSE remote
          /\ dirty' = IF ok THEN Written(tk.kind, cur) ELSE dirty
          /\ IF MarkAfterWrite(ok)
             THEN Keep(t, St([tk1 EXCEPT !.pc = "pushMark"]))
             ELSE Keep(t, Advance(St(tk1), AfterFailure(Tail(tk.snap))))
  /\ UNCHANGED <<local, online, now, nops, used, deleted, appvars>>

\* push: await markAsSynced(id) / markBudgetAsSynced(id), then the next record
PushMark(t) ==
  /\ task[t].pc = "pushMark"
  /\ LET tk == task[t]
         cur == Head(tk.snap)
         tk1 == [tk EXCEPT !.marked = @ \cup {cur.id}]
     IN /\ local' = [local EXCEPT ![tk.kind] = markAsSynced(@, cur.id)]
        /\ Commit(t, Advance(St(tk1), Tail(tk.snap)), tk.kind, tk.user, TRUE)
  /\ UNCHANGED <<remote, online, now, nops, used, dirty, deleted, appvars>>

\* pull: await getDocs(query(where userId == owner)), which succeeds or throws
PullFetch(t) ==
  /\ task[t].pc = "pullFetch"
  /\ \E ok \in BOOLEAN :
       LET tk == task[t]
           fetched == remoteQuery(remote[tk.kind], tk.user)
       IN IF ok
          THEN Keep(t, St([tk EXCEPT !.pc = "pullLocal", !.pR = fetched]))
          ELSE Keep(t, ExitPull(St(tk), FALSE, local[tk.kind]))
  /\ UNCHANGED <<local, remote, online, now, nops, used, dirty, deleted, appvars>>

\* pull: await getExpenses / getBudgets, then the ids missing locally
PullLocal(t) ==
  /\ task[t].pc = "pullLocal"
  /\ LET tk == task[t]
         localIds == IdsOf(getExpenses(tk.kind, tk.user))
         todo == pullMissing(tk.pR, localIds)
     IN IF todo = {}
        THEN Keep(t, ExitPull(St(tk), TRUE, local[tk.kind]))
        ELSE Keep(t, St([tk EXCEPT !.pc = "pullAdd", !.todo = todo]))
  /\ UNCHANGED <<local, remote, online, now, nops, used, dirty, deleted, appvars>>

\* pull: await addExpense / addBudget of one missing record; Dexie's add throws
\* when the key is already present.  The fetch order (createdAt descending) is
\* left open: any of the remaining records may come next.
PullAdd(t) ==
  /\ task[t].pc = "pullAdd"
  /\ \E r \in task[t].todo :
       LET tk == task[t]
           k == tk.kind
           rest == tk.todo \ {r}
       IN IF r.id \in DOMAIN local[k]
          THEN /\ Keep(t, ExitPull(St(tk), FALSE, local[k]))
               /\ UNCHANGED local
          ELSE LET tbl == Put(local[k], pullRecord(r))
                   st0 == [tk |-> tk, sip |-> syncInProgress, q |-> quiet \ {tk.user}]
               IN /\ local' = [local EXCEPT ![k] = tbl]
                  /\ IF rest = {}
                     THEN Commit(t, ExitPull(st0, TRUE, tbl), k, tk.user, FALSE)
                     ELSE Commit(t, [st0 EXCEPT !.tk.todo = rest], k, tk.user, FALSE)
  /\ UNCHANGED <<remote, online, now, nops, used, dirty, deleted, appvars>>

\* ------------------------------------------------------------- environment
\* another device of owner u pushes a record: setDoc under the record's id
OtherDeviceWrite(k, id, u, v) ==
  /\ nops < MaxOps
  /\ id \in KindIds(k)
  /\ \/ id \in DOMAIN local[k] /\ local[k][id].userId = u
     \/ id \notin DOMAIN local[k] /\ id \in DOMAIN remote[k] /\ remote[k][id].userId = u
     \/ used[k] # KindIds(k) /\ id = FreshId(k)
  /\ LET d == pushDocument(NewRecord(id, u, v, now))
     IN /\ remote' = [remote EXCEPT ![k] = Put(@, d)]
        /\ dirty' = Written(k, d)
  /\ used' = [used EXCEPT ![k] = @ \cup {id}]
  /\ Started
  /\ UNCHANGED <<local, syncInProgress, online, task, quiet, deleted, appvars>>

\* another device of the owner deletes a document: deleteDoc under its id
OtherDeviceDelete(id) ==
  /\ nops < MaxOps
  /\ id \in DOMAIN remote["expenses"]
  /\ remote["expenses"][id].userId \in SignedIn
  /\ remote' = [remote EXCEPT !["expenses"] = Remove(@, id)]
  /\ deleted' = [deleted EXCEPT !.remotely = @ \cup {id}]
  /\ Started
  /\ UNCHANGED <<local, syncInProgress, online, task, used, dirty, quiet, appvars>>

\* the runtime's online / offline events
Connectivity ==
  /\ online' = ~online
  /\ UNCHANGED <<local, remote, syncInProgress, now, task, nops, used, dirty, quiet, deleted, appvars>>

Next ==
  \/ \E t \in Tasks, u \in SignedIn, v \in NewVals : AddExpense(t, u, v)
  \/ \E t \in Tasks, id \in Ids, v \in Vals : UpdateExpense(t, id, v)
  \/ \E t \in Tasks : UpdGet(t)
  \/ \E t \in Tasks, id \in Ids : DeleteExpense(t, id)
  \/ \E t \in Tasks : DelRemote(t)
  \/ \E u \in SignedIn, v \in NewVals : CreateBudget(u, v)
  \/ \E id \in Ids, v \in Vals : UpdateBudget(id, v)
  \/ \E t \in Tasks, u \in SignedIn, p \in Procs : StartSync(t, u, p)
  \/ \E t \in Tasks, u \in SignedIn : StartFullSync(t, u)
  \/ \E t \in Tasks, u \in SignedIn : ManualSync(t, u)
  \/ \E t \in Tasks : PushRead(t)
  \/ \E t \in Tasks : PushWrite(t)
  \/ \E t \in Tasks : PushMark(t)
  \/ \E t \in Tasks : PullFetch(t)
  \/ \E t \in Tasks : PullLocal(t)
  \/ \E t \in Tasks : PullAdd(t)
  \/ \E k \in Kinds, id \in Ids, u \in SignedIn, v \in OtherVals : OtherDeviceWrite(k, id, u, v)
  \/ Connectivity

Spec == Init /\ [][Next]_vars

\* ------------------------------------------------------------- budgets to upload
\* The module is loaded on a device whose owner may have created budget m
\* offline in an earlier session: it is then in the Local Store, synced =
\* false, and not in the Remote Store.
OverlapInit ==
  /\ \E aSynced \in BOOLEAN, mLocal \in BOOLEAN :
       /\ local = [k \in Kinds |->
                     IF k = "expenses"
                     THEN Put(Put(EmptyTbl, Stored("a", "u1", 1, aSynced)),
                              Stored("z", "u2", 1, FALSE))
                     ELSE IF mLocal THEN Put(EmptyTbl, Stored("m", "u1", 1, FALSE))
                     ELSE EmptyTbl]
       /\ remote = [k \in Kinds |->
                      IF k = "expenses"
                      THEN IF aSynced
                           THEN Put(Put(EmptyTbl, Stored("a", "u1", 1, TRUE)),
                                    Stored("y", "u2", 2, TRUE))
                           ELSE Put(EmptyTbl, Stored("y", "u2", 2, TRUE))
                      ELSE EmptyTbl]
       /\ dirty = [k \in Kinds |->
                     IF k = "expenses" THEN IF aSynced THEN {"z"} ELSE {"z", "a"}
                     ELSE IF mLocal THEN {"m"} ELSE {}]
       /\ used = [k \in Kinds |->
                    IF k = "expenses" THEN {"a"} ELSE IF mLocal THEN {"m"} ELSE {}]
  /\ syncInProgress = FALSE
  /\ online \in BOOLEAN
  /\ now = 0
  /\ task = [t \in Tasks |-> IdleTask]
  /\ nops = 0
  /\ quiet = {}
  /\ deleted = NoneDeleted
  /\ mounted = FALSE
  /\ onlineListeners = 0 /\ listeners = 0 /\ subscriptions = 0 /\ timers = 0
  /\ rt = IdleRt
  /\ view = EmptyTbl
  /\ hist = NoHist
  /\ peer = NoPeer
  /\ BudgetIdle

\* the sync engine started with a budget to upload
OverlapSpec == OverlapInit /\ [][Next]_vars

\* ------------------------------------------------------------- pushes for two owners
\* syncToFirebase(userId) takes any userId: besides the calls for the owner of
\* the session, a push for the other owner whose records the Local Store
\* holds
OwnersNext ==
  \/ Next
  \/ \E t \in Tasks, u \in Owners \ SignedIn : StartSync(t, u, "pushE")

OwnersSpec == Init /\ [][OwnersNext]_vars

\* ------------------------------------------------------------- two devices
\* Two devices A and B of owner u1 share the Remote Store.  The variables
\* local, syncInProgress, task, now, nops, dirty and quiet describe the device
\* peer.dev; peer holds the same of the other device.  Each device runs one
\* fullSync at a time and nothing else: no edits, no deletes.
OtherDev(d) == IF d = "A" THEN "B" ELSE "A"

\* the finished fullSync of the device described, if any: it completed
\* without a throw and without a failed remote write
CompletedSyncs ==
  {[dev |-> peer.dev,
    ok |-> /\ task[t].res = "ok" /\ task[t].failed = {}
           /\ task[t].user \in quiet]
     : t \in {x \in Tasks : task[x].pc = "done" /\ task[x].op = "fullSync"}}

\* the other device runs next: the two device contexts are exchanged.
\* History: a fullSync the device completed is appended to peer.log and the
\* finished call is forgotten; peer.overlap is set when the device is left
\* with a call in flight.
Switch ==
  /\ LET busy == \E t \in Tasks : ~Free(t)
         rested == [t \in Tasks |-> IF Free(t) THEN IdleTask ELSE task[t]]
     IN /\ peer' = [dev |-> OtherDev(peer.dev), local |-> local,
                    syncInProgress |-> syncInProgress, task |-> rested, now |-> now,
                    nops |-> nops, dirty |-> dirty, quiet |-> quiet,
                    log |-> IF CompletedSyncs = {} THEN peer.log
                            ELSE Append(peer.log, CHOOSE c \in CompletedSyncs : TRUE),
                    overlap |-> peer.overlap \/ busy]
        /\ local' = peer.local
        /\ syncInProgress' = peer.syncInProgress
        /\ task' = peer.task
        /\ now' = peer.now
        /\ nops' = peer.nops
        /\ dirty' = peer.dirty
        /\ quiet' = peer.quiet
  /\ UNCHANGED <<remote, online, used, deleted, mounted, onlineListeners, listeners,
                 subscriptions, timers, rt, view, hist, bvars>>

\* a device calls fullSync when it has no call in flight
PairStart(t, u) ==
  /\ nops + peer.nops < MaxSyncs
  /\ \A s \in Tasks : Free(s)
  /\ StartFullSync(t, u)

\* Device A holds what Init gives it.  Device B holds expense b and budget m
\* of the owner, created offline and never uploaded.
PairInit ==
  /\ \E ie \in InitExpenses :
       /\ local = [k \in Kinds |->
                     IF k = "expenses" THEN Put(ie.l, Stored("z", "u2", 1, FALSE))
                     ELSE EmptyTbl]
       /\ remote = [k \in Kinds |->
                      IF k = "expenses" THEN Put(ie.r, Stored("y", "u2", 2, TRUE))
                      ELSE EmptyTbl]
       /\ dirty = [k \in Kinds |->
                     IF k = "expenses"
                     THEN {"z"} \cup {i \in DOMAIN ie.l : ~ie.l[i].synced}
                     ELSE {}]
       /\ peer = [NoPeer EXCEPT
                    !.local = [k \in Kinds |->
                                 IF k = "expenses"
                                 THEN Put(EmptyTbl, Stored("b", "u1", 1, FALSE))
                                 ELSE Put(EmptyTbl, Stored("m", "u1", 1, FALSE))],
                    !.dirty = [k \in Kinds |->
                                 IF k = "expenses" THEN {"b"} ELSE {"m"}]]
  /\ used = [k \in Kinds |-> IF k = "expenses" THEN {"a", "b"} ELSE {"m"}]
  /\ syncInProgress = FALSE
  /\ online = TRUE
  /\ now = 0
  /\ task = [t \in Tasks |-> IdleTask]
  /\ nops = 0
  /\ quiet = {}
  /\ deleted = NoneDeleted
  /\ mounted = FALSE
  /\ onlineListeners = 0 /\ listeners = 0 /\ subscriptions = 0 /\ timers = 0
  /\ rt = IdleRt
  /\ view = EmptyTbl
  /\ hist = NoHist
  /\ BudgetIdle

PairNext ==
  \/ \E t \in Tasks, u \in SignedIn : PairStart(t, u)
  \/ \E t \in Tasks : PushRead(t)
  \/ \E t \in Tasks : PushWrite(t)
  \/ \E t \in Tasks : PushMark(t)
  \/ \E t \in Tasks : PullFetch(t)
  \/ \E t \in Tasks : PullLocal(t)
  \/ \E t \in Tasks : PullAdd(t)
  \/ Switch

PairSpec == PairInit /\ [][PairNext]_vars

\* ------------------------------------------------------------- a push that raises
\* push: await getUnsyncedExpenses / getUnsyncedBudgets rejects (the Local
\* Store fails)
PushReadFails(t) ==
  /\ task[t].pc = "pushRead"
  /\ Keep(t, RaisePush(St(task[t])))
  /\ UNCHANGED <<local, remote, online, now, nops, used, dirty, deleted, appvars>>

FlagNext ==
  \/ Next
  \/ \E t \in Tasks : PushReadFails(t)

\* the sync engine with pushes that can raise
FlagSpec == Init /\ [][FlagNext]_vars

\* ------------------------------------------------------------- sync status
\* ExpenseService.getSyncStatus(u): the result when getUnsyncedExpenses
\* resolved, and what its catch returns when it rejected
GetSyncStatus(u, ok) ==
  /\ hist' = [hist EXCEPT !.status =
                 IF ok
                 THEN [res |-> "ok", failed |-> FALSE,
                       unsyncedCount |-> getSyncStatus(u).unsyncedCount,
                       isOnline |-> getSyncStatus(u).isOnline]
                 ELSE [res |-> "ok", failed |-> TRUE,
                       unsyncedCount |-> 0, isOnline |-> FALSE]]
  /\ UNCHANGED <<local, remote, syncInProgress, online, now, task, nops, used, dirty,
                 quiet, deleted, mounted, onlineListeners, listeners, subscriptions,
                 timers, rt, view, bvars, peer>>

StatusNext ==
  \/ Next
  \/ \E u \in SignedIn, ok \in BOOLEAN : GetSyncStatus(u, ok)

\* the sync engine with the status display asking for the sync status at any
\* moment
StatusSpec == Init /\ [][StatusNext]_vars

\* ------------------------------------------------------------- the application
\* MainApp mounts its effect for the signed-in user, which calls
\* initializeSync and registers MainApp's own 'online' listener; the effect's
\* cleanup removes that listener and calls SyncService.cleanup.

\* a call started by an event takes the first free task
FirstFree(t) ==
  /\ Free(t)
  /\ \A s \in Tasks : Free(s) => (t = "t1" \/ s # "t1")

\* await SyncService.fullSync(u), called by initializeSync, by MainApp's
\* 'online' listener through manualSync, or by the auto-sync timer
fullSyncFor(caller, u) ==
  Enter(FullSyncSteps[1],
        St([Fresh("fullSync", u) EXCEPT
              !.phase = 1, !.caller = caller,
              !.gone0 = IF online THEN deleted.offline ELSE {},
              !.unsynced0 = IF caller = "autoSync"
                            THEN {r.id : r \in {x \in getExpenses("expenses", u) : ~x.synced}}
                            ELSE {}]))

\* setupAutoSync: removeEventListener is given a function created by this very
\* call, which was never registered, so it removes nothing; addEventListener
\* then registers it
addOnlineListener(n) == n + 1

\* setupAutoSync: if (this.isOnline()) this.setupRealtimeSync(userId, onUpdate)
realtimeAtSetup(onl) == onl

\* setupRealtimeSync: onSnapshot(...) and this.listeners.push(unsubscribe)
setupRealtimeSync(n) == n + 1

\* the auto-sync listener, on 'online': setTimeout(fullSync, 1000), and
\* nothing else
handleOnline(n, registered) == n + registered

\* MainApp's effect: initializeSync(user.id), which awaits fullSync first when
\* online and calls setupAutoSync only after it returned
Mount(t, u) ==
  /\ ~mounted
  /\ hist.mounts < MaxMounts
  /\ mounted' = TRUE
  /\ hist' = [hist EXCEPT !.mounts = @ + 1]
  /\ IF online
     THEN /\ FirstFree(t)
          /\ Keep(t, fullSyncFor("initializeSync", u))
          /\ UNCHANGED <<onlineListeners, listeners, subscriptions>>
     ELSE /\ t = "t1"
          /\ onlineListeners' = addOnlineListener(onlineListeners)
          /\ UNCHANGED <<task, syncInProgress, quiet, listeners, subscriptions>>
  /\ UNCHANGED <<bvars, peer>>
  /\ UNCHANGED <<local, remote, online, now, nops, used, dirty, deleted, timers, rt, view>>

\* initializeSync after its fullSync returned: setupAutoSync
InitSetup(t) ==
  /\ task[t].pc = "initSetup"
  /\ task' = [task EXCEPT ![t] = Done(@, "ok")]
  /\ onlineListeners' = addOnlineListener(onlineListeners)
  /\ IF realtimeAtSetup(online)
     THEN /\ subscriptions' = setupRealtimeSync(subscriptions)
          /\ listeners' = setupRealtimeSync(listeners)
          /\ view' = EmptyTbl
     ELSE UNCHANGED <<subscriptions, listeners, view>>
  /\ UNCHANGED <<bvars, peer>>
  /\ UNCHANGED <<local, remote, syncInProgress, online, now, nops, used, dirty, quiet,
                 deleted, mounted, timers, rt, hist>>

\* the cleanup of MainApp's effect: its listeners removed, then
\* SyncService.cleanup: every unsubscribe of this.listeners called, and the
\* array emptied.  The 'online' listeners of setupAutoSync stay registered and
\* calls in flight go on.
Unmount ==
  /\ mounted
  /\ mounted' = FALSE
  /\ subscriptions' = subscriptions - listeners
  /\ listeners' = 0
  /\ hist' = [hist EXCEPT !.cleanups = @ + 1]
  /\ UNCHANGED <<bvars, peer>>
  /\ UNCHANGED <<local, remote, syncInProgress, online, now, task, nops, used, dirty,
                 quiet, deleted, onlineListeners, timers, rt, view>>

\* the 'online' event: every auto-sync listener sets its timer; MainApp's
\* listener, if registered, calls manualSync at once
GoOnline(t, u) ==
  /\ ~online
  /\ hist.flips < MaxFlips
  /\ online' = TRUE
  /\ hist' = [hist EXCEPT !.flips = @ + 1]
  /\ timers' = handleOnline(timers, onlineListeners)
  /\ IF mounted
     THEN /\ FirstFree(t)
          /\ Keep(t, fullSyncFor("manualSync", u))
     ELSE /\ t = "t1"
          /\ UNCHANGED <<task, syncInProgress, quiet>>
  /\ UNCHANGED <<bvars, peer>>
  /\ UNCHANGED <<local, remote, now, nops, used, dirty, deleted, mounted,
                 onlineListeners, listeners, subscriptions, rt, view>>

\* the 'offline' event: MainApp's listener only updates the display
GoOffline ==
  /\ online
  /\ hist.flips < MaxFlips
  /\ online' = FALSE
  /\ hist' = [hist EXCEPT !.flips = @ + 1]
  /\ UNCHANGED <<bvars, peer>>
  /\ UNCHANGED <<local, remote, syncInProgress, now, task, nops, used, dirty, quiet,
                 deleted, mounted, onlineListeners, listeners, subscriptions, timers, rt,
                 view>>

\* the settle delay of one auto-sync listener has elapsed: await fullSync
TimerFire(t, u) ==
  /\ timers > 0
  /\ FirstFree(t)
  /\ timers' = timers - 1
  /\ Keep(t, fullSyncFor("autoSync", u))
  /\ UNCHANGED <<bvars, peer>>
  /\ UNCHANGED <<local, remote, online, now, nops, used, dirty, deleted, mounted,
                 onlineListeners, listeners, subscriptions, rt, view, hist>>

\* ------------------------------------------------------------- realtime batches
ChangeTypes == {"added", "modified", "removed"}

\* the owner's documents of the collection: query(expensesRef, where('userId', '==', userId))
Queried(u) ==
  [id \in {i \in DOMAIN remote["expenses"] : remote["expenses"][i].userId = u}
     |-> remote["expenses"][id]]

\* snapshot.docChanges(): the documents that entered the query, changed or
\* left it since the last snapshot; change.doc of a removed document is its
\* last reported content
Changes(u) ==
  LET q == Queried(u) IN
  {[type |-> "added", doc |-> q[id]] : id \in DOMAIN q \ DOMAIN view}
  \cup {[type |-> "modified", doc |-> q[id]] :
          id \in {i \in DOMAIN q \cap DOMAIN view : q[i] # view[i]}}
  \cup {[type |-> "removed", doc |-> view[id]] : id \in DOMAIN view \ DOMAIN q}

\* the changes of one snapshot, in any order
Batches(u) ==
  LET C == Changes(u) IN
  {b \in [1..Cardinality(C) -> C] :
     \A i, j \in 1..Cardinality(C) : i # j => b[i] # b[j]}

\* the handler: added or modified, and !existsLocally
rtInsert(type, exists) == type \in {"added", "modified"} /\ ~exists

\* the handler's for loop: the await the next change of the batch leads to,
\* and after the last change: if (hasChanges && onUpdate) onUpdate()
rtNext(r, rest) ==
  IF rest = <<>>
  THEN [IdleRt EXCEPT !.done = r.done, !.updates = IF r.hasChanges THEN 1 ELSE 0]
  ELSE [r EXCEPT !.batch = rest,
                 !.pc = IF Head(rest).type = "removed" THEN "rtDel" ELSE "rtGet"]

\* onSnapshot delivers the changes to a subscription that is not cancelled
Snapshot(u, b) ==
  /\ online
  /\ subscriptions > 0
  /\ rt.pc = "idle"
  /\ hist.batches < MaxBatches
  /\ b \in Batches(u)
  /\ b # <<>>
  /\ rt' = rtNext([IdleRt EXCEPT !.user = u], b)
  /\ view' = Queried(u)
  /\ hist' = [hist EXCEPT !.batches = @ + 1]
  /\ UNCHANGED <<bvars, peer>>
  /\ UNCHANGED <<local, remote, syncInProgress, online, now, task, nops, used, dirty,
                 quiet, deleted, mounted, onlineListeners, listeners, subscriptions,
                 timers>>

\* the handler after await ExpenseDB.getExpenses(userId)
RtGet ==
  /\ rt.pc = "rtGet"
  /\ LET ch == Head(rt.batch)
         exists == ch.doc.id \in IdsOf(getExpenses("expenses", rt.user))
     IN rt' = IF rtInsert(ch.type, exists) THEN [rt EXCEPT !.pc = "rtAdd"]
              ELSE rtNext([rt EXCEPT !.done = Append(@, <<Head(rt.batch).doc.id, "kept">>)], Tail(rt.batch))
  /\ UNCHANGED <<bvars, peer>>
  /\ UNCHANGED <<local, remote, syncInProgress, online, now, task, nops, used, dirty,
                 quiet, deleted, mounted, onlineListeners, listeners, subscriptions,
                 timers, view, hist>>

\* the handler after await ExpenseDB.addExpense({...expense, synced: true});
\* when the add throws, the handler's catch ends the batch
RtAdd ==
  /\ rt.pc = "rtAdd"
  /\ LET ch == Head(rt.batch) IN
     IF ch.doc.id \in DOMAIN local["expenses"]
     THEN /\ rt' = [IdleRt EXCEPT !.done = Append(rt.done, <<Head(rt.batch).doc.id, "threw">>)]
          /\ UNCHANGED <<local, task, quiet>>
     ELSE /\ local' = [local EXCEPT !["expenses"] = Put(@, pullRecord(ch.doc))]
          /\ task' = Disturb(task, NoTask, "expenses", rt.user, FALSE)
          /\ quiet' = quiet \ {rt.user}
          /\ rt' = rtNext([rt EXCEPT !.done = Append(@, <<ch.doc.id, "inserted">>),
                                     !.hasChanges = TRUE],
                           Tail(rt.batch))
  /\ UNCHANGED <<bvars, peer>>
  /\ UNCHANGED <<remote, syncInProgress, online, now, nops, used, dirty, deleted,
                 mounted, onlineListeners, listeners, subscriptions, timers, view, hist>>

\* the handler after await ExpenseDB.deleteExpense(expense.id), which changes
\* nothing when the id is missing; hasChanges = true either way
RtDel ==
  /\ rt.pc = "rtDel"
  /\ LET ch == Head(rt.batch) IN
     /\ local' = [local EXCEPT !["expenses"] = Remove(@, ch.doc.id)]
     /\ dirty' = [dirty EXCEPT !["expenses"] = @ \ {ch.doc.id}]
     /\ task' = Disturb(task, NoTask, "expenses", rt.user, FALSE)
     /\ quiet' = quiet \ {rt.user}
     /\ rt' = rtNext([rt EXCEPT
                         !.done = Append(@, <<ch.doc.id,
                                              IF ch.doc.id \in DOMAIN local["expenses"]
                                              THEN "deleted" ELSE "absent">>),
                         !.hasChanges = TRUE],
                      Tail(rt.batch))
  /\ UNCHANGED <<bvars, peer>>
  /\ UNCHANGED <<remote, syncInProgress, online, now, nops, used, deleted,
                 mounted, onlineListeners, listeners, subscriptions, timers, view, hist>>

\* no sync call is in flight
Settled == \A t \in Tasks : Free(t)

\* The application, started with the owner's stores empty.  The behaviours
\* explored are those in which the user, other devices and the runtime's
\* mount and connectivity events act between sync calls, while timers and
\* realtime batches arrive at any moment, and in which a remote operation
\* succeeds exactly when the device is online.
AppInit ==
  /\ local = [k \in Kinds |->
                IF k = "expenses" THEN Put(EmptyTbl, Stored("z", "u2", 1, FALSE))
                ELSE EmptyTbl]
  /\ remote = [k \in Kinds |->
                 IF k = "expenses" THEN Put(EmptyTbl, Stored("y", "u2", 2, TRUE))
                 ELSE EmptyTbl]
  /\ used = [k \in Kinds |-> {}]
  /\ dirty = [k \in Kinds |-> IF k = "expenses" THEN {"z"} ELSE {}]
  /\ syncInProgress = FALSE
  /\ online \in BOOLEAN
  /\ now = 0
  /\ task = [t \in Tasks |-> IdleTask]
  /\ nops = 0
  /\ quiet = {}
  /\ deleted = NoneDeleted
  /\ mounted = FALSE
  /\ onlineListeners = 0 /\ listeners = 0 /\ subscriptions = 0 /\ timers = 0
  /\ rt = IdleRt
  /\ view = EmptyTbl
  /\ hist = NoHist
  /\ peer = NoPeer
  /\ BudgetIdle

AppNext ==
  \/ \E t \in Tasks, u \in SignedIn : Settled /\ Mount(t, u)
  \/ \E t \in Tasks : InitSetup(t)
  \/ Settled /\ Unmount
  \/ \E t \in Tasks, u \in SignedIn : Settled /\ rt.pc = "idle" /\ GoOnline(t, u)
  \/ Settled /\ rt.pc = "idle" /\ GoOffline
  \/ \E t \in Tasks, u \in SignedIn : TimerFire(t, u)
  \/ \E u \in SignedIn : \E b \in Batches(u) : Snapshot(u, b)
  \/ RtGet
  \/ RtAdd
  \/ RtDel
  \/ \E t \in Tasks, u \in SignedIn, v \in NewVals :
       Settled /\ mounted /\ AddExpense(t, u, v)
  \/ \E t \in Tasks : PushRead(t)
  \/ \E t \in Tasks : PushWrite(t) /\ (online <=> task'[t].pc = "pushMark")
  \/ \E t \in Tasks : PushMark(t)
  \/ \E t \in Tasks : PullFetch(t) /\ (online <=> task'[t].pc = "pullLocal")
  \/ \E t \in Tasks : PullLocal(t)
  \/ \E t \in Tasks : PullAdd(t)
  \/ \E id \in Ids, u \in SignedIn, v \in OtherVals :
       Settled /\ OtherDeviceWrite("expenses", id, u, v)
  \/ \E id \in Ids : Settled /\ OtherDeviceDelete(id)
  \/ \E t \in Tasks, id \in Ids : Settled /\ mounted /\ DeleteExpense(t, id)
  \/ \E t \in Tasks : DelRemote(t) /\ (online <=> task'[t].res = "ok")

AppSpec == AppInit /\ [][AppNext]_vars

\* ------------------------------------------------------------- Budget Engine
RECURSIVE SumAmounts(_)
SumAmounts(es) == IF es = <<>> THEN 0 ELSE Head(es).amount + SumAmounts(Tail(es))

\* the startDate of calculateCurrentSpending at time t
periodStart(period, t) ==
  CASE period = "daily" -> 24 * (t \div 24)
    [] period = "weekly" -> t - 24 * ((t \div 24) % 7)
    [] period = "monthly" -> 744 * (t \div 744)
    [] period = "yearly" -> 8760 * (t \div 8760)

\* new Date(expense.date) of a date-only string: 00:00 UTC of that day, as
\* local time
parseDate(day) == 24 * day + zone

\* new Date().toISOString().split('T')[0], the date the expense form starts
\* with: the UTC calendar day of now
todayString == (clock - zone) \div 24

calculateCurrentSpending(es, budget, t) ==
  SumAmounts(SelectSeq(es, LAMBDA x :
     /\ parseDate(x.date) >= periodStart(budget.period, t) /\ parseDate(x.date) <= t
     /\ (budget.category = "" \/ x.category = budget.category)))

\* Math.round((spent / amount) * 100)
roundedPercentage(spent, amount) == (200 * spent + amount) \div (2 * amount)

getActiveBudgets(u) ==
  SelectSeq(LimitSeq, LAMBDA id :
     id \in DOMAIN limits /\ limits[id].userId = u /\ limits[id].enabled)

expensesOf(u) == SelectSeq(expenses, LAMBDA x : x.userId = u)

\* BudgetService.getBudgetProgress at time t
getBudgetProgress(u, t) ==
  LET ids == getActiveBudgets(u)
      es == expensesOf(u)
  IN [i \in 1..Len(ids) |->
        LET budget == limits[ids[i]]
            spent == calculateCurrentSpending(es, budget, t)
        IN [budgetId |-> budget.id, period |-> budget.period,
            category |-> budget.category, spent |-> spent, limit |-> budget.amount,
            percentage |-> roundedPercentage(spent, budget.amount),
            status |-> IF 100 * spent >= 100 * budget.amount THEN "exceeded"
                       ELSE IF 100 * spent >= budget.warningThreshold * budget.amount
                            THEN "warning" ELSE "safe",
            warningThreshold |-> budget.warningThreshold]]

\* the alertType checkBudgetsAndCreateAlerts derives from a progress entry
alertTypeOf(progress) ==
  IF progress.percentage >= 100 THEN "exceeded"
  ELSE IF progress.percentage >= progress.warningThreshold THEN "warning"
  ELSE IF progress.percentage >= progress.warningThreshold - 10 THEN "approaching"
  ELSE "none"

\* faulty variant: any alert of the budget counts
getAnyAlert(budgetId, type, cutoff) == {a \in alerts : a.budgetId = budgetId}

\* BudgetDB.getRecentAlert with its cutoffDate: the alerts the query matches
getRecentAlert(budgetId, type, cutoff) ==
  {a \in alerts : /\ a.budgetId = budgetId
                  /\ a.type = type /\ ~a.dismissed /\ a.createdAt > cutoff}

\* the loop of checkBudgetsAndCreateAlerts moves to its next progress entry,
\* or returns newAlerts
evNext(e, rest) ==
  [IdleEval EXCEPT !.user = e.user, !.newAlerts = e.newAlerts, !.queue = rest,
                   !.undisturbed = e.undisturbed, !.stored = e.stored,
                   !.pc = IF rest = <<>> THEN "done" ELSE "getBudget",
                   !.res = IF rest = <<>> THEN "ok" ELSE "none"]

\* faulty variant: the catch returns the alerts created so far
caughtReturns(newAlerts) == newAlerts

\* the catch of checkBudgetsAndCreateAlerts logs and rethrows: no list
\* reaches the caller
caught(newAlerts) == <<>>

\* an awaited Local Store operation of the evaluation rejected
evThrow(e) ==
  [IdleEval EXCEPT !.user = e.user, !.undisturbed = e.undisturbed,
                   !.stored = e.stored, !.pc = "done", !.res = "error",
                   !.newAlerts = caught(e.newAlerts)]

EvFree(e) == ev[e].pc \in {"idle", "done"}

\* history: every evaluation in flight other than e has been disturbed
Disturbed(evf, e) ==
  [x \in Evals |-> IF x # e /\ evf[x].pc \notin {"idle", "done"}
                   THEN [evf[x] EXCEPT !.undisturbed = FALSE] ELSE evf[x]]

\* no evaluation is in flight
EvSettled == \A e \in Evals : EvFree(e)

\* checkBudgetsAndCreateAlerts(u) up to the result of getBudgetProgress; the
\* call takes the first free slot
EvProgress(e, u, ok) ==
  /\ EvFree(e)
  /\ e = "e1" \/ ~EvFree("e1")
  /\ bhist.ops < MaxBudgetOps
  /\ LET call == [IdleEval EXCEPT !.user = u, !.undisturbed = EvSettled]
     IN ev' = Disturbed([ev EXCEPT ![e] =
                           IF ok THEN evNext(call, getBudgetProgress(u, clock))
                           ELSE evThrow(call)], e)
  /\ bhist' = [bhist EXCEPT !.ops = @ + 1]
  /\ UNCHANGED <<syncvars, zone>>
  /\ UNCHANGED <<limits, alerts, expenses, clock, del>>

\* after await BudgetDB.getBudgetById(progress.budgetId): the alert type, and
\* the call of getRecentAlert, which computes its cutoffDate
EvGetBudget(e, ok) ==
  /\ ev[e].pc = "getBudget"
  /\ LET progress == Head(ev[e].queue)
         type == alertTypeOf(progress)
     IN ev' = [ev EXCEPT ![e] =
                 IF ~ok THEN evThrow(@)
                 ELSE IF progress.budgetId \notin DOMAIN limits \/ type = "none"
                 THEN evNext(@, Tail(ev[e].queue))
                 ELSE [@ EXCEPT !.pc = "recent", !.budget = limits[progress.budgetId],
                                !.alertType = type, !.cutoff = clock - 24]]
  /\ UNCHANGED <<syncvars, zone>>
  /\ UNCHANGED <<limits, alerts, expenses, clock, del, bhist>>

\* after await BudgetDB.getRecentAlert(...): the alert is built when the
\* query matched nothing
EvRecent(e, ok) ==
  /\ ev[e].pc = "recent"
  /\ LET t == ev[e]
         progress == Head(t.queue)
     IN IF ~ok
        THEN /\ ev' = [ev EXCEPT ![e] = evThrow(@)]
             /\ UNCHANGED bhist
        ELSE IF getRecentAlert(t.budget.id, t.alertType, t.cutoff) # {}
        THEN /\ ev' = [ev EXCEPT ![e] = evNext(@, Tail(t.queue))]
             /\ UNCHANGED bhist
        ELSE /\ ev' = [ev EXCEPT ![e].pc = "addAlert",
                                 ![e].alert =
                                    [Alert(bhist.made + 1, t.budget, t.alertType,
                                           progress.percentage, progress.spent, clock)
                                       EXCEPT !.userId = t.user,
                                              !.budgetAmount = progress.limit]]
             /\ bhist' = [bhist EXCEPT !.made = @ + 1]
  /\ UNCHANGED <<syncvars, zone>>
  /\ UNCHANGED <<limits, alerts, expenses, clock, del>>

\* faulty variant: the alert takes the place of the budget's earlier alerts
replaceAlert(as, a) == {x \in as : x.budgetId # a.budgetId} \cup {a}

\* BudgetDB.addAlert: db.alerts.add(alert), the id being a fresh uuid
addAlert(as, a) == as \cup {a}

\* after await BudgetDB.addAlert(alert), which stores the alert or rejects
EvAdd(e, ok) ==
  /\ ev[e].pc = "addAlert"
  /\ IF ok
     THEN /\ alerts' = addAlert(alerts, ev[e].alert)
          /\ ev' = [ev EXCEPT ![e] =
                      evNext([@ EXCEPT !.newAlerts = Append(@, ev[e].alert),
                                       !.stored = Append(@, ev[e].alert)],
                             Tail(ev[e].queue))]
     ELSE /\ ev' = [ev EXCEPT ![e] = evThrow(@)]
          /\ UNCHANGED alerts
  /\ UNCHANGED <<syncvars, zone>>
  /\ UNCHANGED <<limits, expenses, clock, del, bhist>>

\* faulty variant: the second step deletes every alert
alertsOfAll(id) == alerts

\* the alerts db.alerts.where('budgetId').equals(id) selects
alertsOf(id) == {a \in alerts : a.budgetId = id}

\* BudgetService.deleteBudget(id) up to the end of await db.budgets.delete(id)
DeleteBudget(id, ok) ==
  /\ del.pc \in {"idle", "done"}
  /\ id \in DOMAIN limits
  /\ bhist.ops < MaxBudgetOps
  /\ bhist' = [bhist EXCEPT !.ops = @ + 1]
  /\ IF ok
     THEN /\ limits' = Remove(limits, id)
          /\ del' = [pc |-> "delAlerts", id |-> id, res |-> "none"]
     ELSE /\ del' = [pc |-> "done", id |-> id, res |-> "error"]
          /\ UNCHANGED limits
  /\ ev' = Disturbed(ev, "")
  /\ UNCHANGED <<syncvars, zone>>
  /\ UNCHANGED <<alerts, expenses, clock>>

\* after await db.alerts.where('budgetId').equals(id).delete()
DelAlerts(ok) ==
  /\ del.pc = "delAlerts"
  /\ IF ok
     THEN /\ alerts' = alerts \ alertsOf(del.id)
          /\ del' = [del EXCEPT !.pc = "done", !.res = "ok"]
     ELSE /\ del' = [del EXCEPT !.pc = "done", !.res = "error"]
          /\ UNCHANGED alerts
  /\ ev' = Disturbed(ev, "")
  /\ UNCHANGED <<syncvars, zone>>
  /\ UNCHANGED <<limits, expenses, clock, bhist>>

\* BudgetService.dismissAlert(id)
DismissAlert(id) ==
  /\ \E a \in alerts : a.id = id /\ ~a.dismissed
  /\ bhist.ops < MaxBudgetOps
  /\ alerts' = {IF a.id = id THEN [a EXCEPT !.dismissed = TRUE] ELSE a : a \in alerts}
  /\ bhist' = [bhist EXCEPT !.ops = @ + 1]
  /\ ev' = Disturbed(ev, "")
  /\ UNCHANGED <<syncvars, zone>>
  /\ UNCHANGED <<limits, expenses, clock, del>>

\* faulty variant: only dismissed alerts are swept
clearOldDismissed(as, u, daysOld, t) ==
  {a \in as : ~(a.userId = u /\ a.dismissed /\ a.createdAt < t - 24 * daysOld)}

\* BudgetDB.clearOldAlerts(u, daysOld) at time t: the alerts that stay
clearOldAlerts(as, u, daysOld, t) ==
  {a \in as : ~(a.userId = u /\ a.createdAt < t - 24 * daysOld)}

\* BudgetService.cleanupOldAlerts(u), which sets the age to 7 days
CleanupOldAlerts(u) ==
  /\ bhist.ops < MaxBudgetOps
  /\ alerts' = clearOldAlerts(alerts, u, 7, clock)
  /\ bhist' = [bhist EXCEPT !.ops = @ + 1]
  /\ ev' = Disturbed(ev, "")
  /\ UNCHANGED <<syncvars, zone>>
  /\ UNCHANGED <<limits, expenses, clock, del>>

\* the user enters an expense under the date the form starts with
AddSpend(u, amount, category) ==
  /\ bhist.ops < MaxBudgetOps
  /\ expenses' = Append(expenses, [userId |-> u, amount |-> amount,
                                   category |-> category, date |-> todayString])
  /\ bhist' = [bhist EXCEPT !.ops = @ + 1]
  /\ ev' = Disturbed(ev, "")
  /\ UNCHANGED <<syncvars, zone>>
  /\ UNCHANGED <<limits, alerts, clock, del>>

\* a day passes
Tick ==
  /\ bhist.ops < MaxBudgetOps
  /\ clock' = clock + 24
  /\ bhist' = [bhist EXCEPT !.ops = @ + 1]
  /\ ev' = Disturbed(ev, "")
  /\ UNCHANGED <<syncvars, zone>>
  /\ UNCHANGED <<limits, alerts, expenses, del>>

\* what the sync engine holds while the Budget Engine is observed
SyncIdle ==
  /\ local = [k \in Kinds |-> EmptyTbl]
  /\ remote = [k \in Kinds |-> EmptyTbl]
  /\ used = [k \in Kinds |-> {}]
  /\ dirty = [k \in Kinds |-> {}]
  /\ syncInProgress = FALSE
  /\ online = FALSE
  /\ now = 0
  /\ task = [t \in Tasks |-> IdleTask]
  /\ nops = 0
  /\ quiet = {}
  /\ deleted = NoneDeleted
  /\ mounted = FALSE
  /\ onlineListeners = 0 /\ listeners = 0 /\ subscriptions = 0 /\ timers = 0
  /\ rt = IdleRt
  /\ view = EmptyTbl
  /\ hist = NoHist
  /\ peer = NoPeer

\* The signed-in owner has a monthly budget g of 200 over every category and
\* a daily budget h of 100 over fun, enabled or not, with a warning alert
\* raised twelve hours ago; g has an alert that is seven days old to the hour;
\* another owner has a budget k with an older alert.  One expense of last
\* month and one of the other owner are stored.
BudgetInit ==
  /\ SyncIdle
  /\ \E he \in BOOLEAN :
       limits = Put(Put(Put(EmptyTbl,
                   Limit("g", "u1", 200, "monthly", "", TRUE)),
                   Limit("h", "u1", 100, "daily", "fun", he)),
                   Limit("k", "u2", 100, "monthly", "", TRUE))
  /\ alerts = {Alert(1, Limit("k", "u2", 100, "monthly", "", TRUE), "exceeded", 120, 120, -200),
               Alert(2, Limit("h", "u1", 100, "daily", "fun", TRUE), "warning", 90, 90, -12),
               Alert(3, Limit("g", "u1", 200, "monthly", "", TRUE), "approaching", 75, 150, -168)}
  /\ expenses = <<[userId |-> "u1", amount |-> 150, category |-> "food", date |-> -1],
                  [userId |-> "u2", amount |-> 120, category |-> "food", date |-> 0]>>
  /\ clock = 0
  /\ zone = 0
  /\ ev = [e \in Evals |-> IdleEval]
  /\ del = IdleDel
  /\ bhist = NoBHist

Spends == {<<49, "food">>, <<150, "food">>, <<90, "fun">>}

BudgetNext ==
  \/ \E e \in Evals, u \in SignedIn, ok \in BOOLEAN : EvProgress(e, u, ok)
  \/ \E e \in Evals, ok \in BOOLEAN : EvGetBudget(e, ok)
  \/ \E e \in Evals, ok \in BOOLEAN : EvRecent(e, ok)
  \/ \E e \in Evals, ok \in BOOLEAN : EvAdd(e, ok)
  \/ \E id \in {"g", "h"}, ok \in BOOLEAN : DeleteBudget(id, ok)
  \/ \E ok \in BOOLEAN : DelAlerts(ok)
  \/ \E a \in alerts : a.userId \in SignedIn /\ DismissAlert(a.id)
  \/ \E sp \in Spends, u \in SignedIn : AddSpend(u, sp[1], sp[2])
  \/ \E u \in SignedIn : CleanupOldAlerts(u)
  \/ Tick

BudgetSpec == BudgetInit /\ [][BudgetNext]_vars

\* ------------------------------------------------------------- budget periods
\* the user enters an expense under a date chosen in the form
AddDated(u, amount, category, day) ==
  /\ bhist.ops < MaxBudgetOps
  /\ expenses' = Append(expenses, [userId |-> u, amount |-> amount,
                                   category |-> category, date |-> day])
  /\ bhist' = [bhist EXCEPT !.ops = @ + 1]
  /\ ev' = Disturbed(ev, "")
  /\ UNCHANGED <<syncvars, zone>>
  /\ UNCHANGED <<limits, alerts, clock, del>>

\* h hours pass
Pass(h) ==
  /\ bhist.ops < MaxBudgetOps
  /\ clock' = clock + h
  /\ bhist' = [bhist EXCEPT !.ops = @ + 1]
  /\ ev' = Disturbed(ev, "")
  /\ UNCHANGED <<syncvars, zone>>
  /\ UNCHANGED <<limits, alerts, expenses, del>>

\* Day 31 is Wednesday the 1st of February and day 28 the Sunday before it.
\* The owner has one budget of 200 over every category, monthly or weekly;
\* it is 00:00 on day 31 on a device whose local time is UTC-5, UTC or UTC+2,
\* and expenses are entered under the dates of days 27, 28, 30 and 31.
PeriodInit ==
  /\ SyncIdle
  /\ \E p \in {"monthly", "weekly"} :
       limits = Put(EmptyTbl, Limit("g", "u1", 200, p, "", TRUE))
  /\ alerts = {}
  /\ expenses = <<>>
  /\ clock = 24 * 31
  /\ zone \in {-5, 0, 2}
  /\ ev = [e \in Evals |-> IdleEval]
  /\ del = IdleDel
  /\ bhist = NoBHist

PeriodNext ==
  \/ \E u \in SignedIn, day \in {27, 28, 30, 31} : AddDated(u, 150, "food", day)
  \/ \E h \in {1, 10} : Pass(h)
  \/ \E e \in Evals, u \in SignedIn, ok \in BOOLEAN : EvProgress(e, u, ok)
  \/ \E e \in Evals, ok \in BOOLEAN : EvGetBudget(e, ok)
  \/ \E e \in Evals, ok \in BOOLEAN : EvRecent(e, ok)
  \/ \E e \in Evals, ok \in BOOLEAN : EvAdd(e, ok)

PeriodSpec == PeriodInit /\ [][PeriodNext]_vars

\* ------------------------------------------------------------- claims
InPush(t, k) == task[t].pc \in PushPcs /\ task[t].kind = k

\* the last push of task t has ended and its history is still there
PushEnded(t) == task[t].pushes > 0 /\ task[t].pc = "done"

\* C1: a pull that returned normally, with no other call changing the table
\* meanwhile, leaves the table equal to what it was when the pull began (every
\* record unchanged in every field) plus the fetched remote records whose id was
\* missing, stored with synced = true.
C1_AdditivePull ==
  \A t \in Tasks :
    LET L == task[t].pL0
        R == task[t].pR
    IN (task[t].pRes = "ok" /\ task[t].pClean)
         => task[t].pAfter =
              [i \in DOMAIN L \cup IdsOf(R) |->
                 IF i \in DOMAIN L THEN L[i]
                 ELSE [(CHOOSE r \in R : r.id = i) EXCEPT !.synced = TRUE]]

\* C1 witness: such a pull kept a local record whose remote copy differs and
\* added a record that was missing.
C1_Witness ==
  \E t \in Tasks :
    /\ task[t].pRes = "ok" /\ task[t].pClean
    /\ \E r \in task[t].pR :
         r.id \in DOMAIN task[t].pL0 /\ task[t].pL0[r.id].val # r.val
    /\ \E r \in task[t].pR : r.id \notin DOMAIN task[t].pL0

\* C2: a local record with synced = true has had its current field values
\* written to the Remote Store since its last local mutation.
C2_SyncedMeansUploaded ==
  \A k \in Kinds : \A id \in DOMAIN local[k] :
    local[k][id].synced => id \notin dirty[k]

\* C3: every update of an expense or of a budget stores the new fields, stamps
\* updatedAt with the clock's value and leaves the record with synced = false.
C3_UpdateUnsyncs ==
  [][/\ \A t \in Tasks, id \in Ids, v \in Vals :
          UpdateExpense(t, id, v) =>
            local'["expenses"][id] =
              [local["expenses"][id] EXCEPT !.val = v, !.updatedAt = now, !.synced = FALSE]
     /\ \A id \in Ids, v \in Vals :
          UpdateBudget(id, v) =>
            local'["budgets"][id] =
              [local["budgets"][id] EXCEPT !.val = v, !.updatedAt = now, !.synced = FALSE]
    ]_vars

\* C3 witness: an update has just made unsynced an expense that was synced.
C3_Witness ==
  \E t \in Tasks :
    /\ task[t].op = "update" /\ task[t].wasSynced
    /\ task[t].id \in DOMAIN local["expenses"]
    /\ ~local["expenses"][task[t].id].synced
    /\ local["expenses"][task[t].id].updatedAt = now - 1

\* C4: a push marks a record synced only after its own remote write of that
\* record succeeded; while the push runs, a record whose write failed, and that
\* no other call touched, is still unsynced.
C4_MarkOnlyAfterWrite ==
  \A t \in Tasks :
    /\ task[t].marked \subseteq task[t].wrote
    /\ task[t].pc = "pushMark" => Head(task[t].snap).id \in task[t].wrote
    /\ \A id \in task[t].failed :
         (/\ task[t].pc \in PushPcs
          /\ ~task[t].mut
          /\ id \in DOMAIN local[task[t].kind]
          /\ \A s \in Tasks \ {t} : id \notin task[s].marked)
           => ~local[task[t].kind][id].synced

\* C4 witness: the write of a record failed in one push, and a later push read
\* the record again, wrote it and marked it synced.
C4_Witness ==
  \E t, s \in Tasks, id \in ExpenseIds :
    /\ t # s
    /\ task[t].pc = "done" /\ id \in task[t].failed /\ id \notin task[t].marked
    /\ id \in task[s].read /\ id \in task[s].wrote /\ id \in task[s].marked
    /\ local["expenses"][id].synced

\* C5: a push that has ended did not raise, attempted every record it read, and
\* marked synced every record whose write succeeded, whatever writes failed.
C5_PartialFailure ==
  \A t \in Tasks :
    PushEnded(t) =>
      /\ task[t].res = "ok"
      /\ task[t].tried = task[t].read
      /\ task[t].marked = task[t].wrote
      /\ task[t].wrote \cup task[t].failed = task[t].read

\* C5 witness: a push ended after one write failed and another succeeded.
C5_Witness ==
  \E t \in Tasks :
    /\ PushEnded(t)
    /\ task[t].failed # {}
    /\ task[t].wrote \ task[t].failed # {}
    /\ \A id \in task[t].wrote \ task[t].failed :
         id \in DOMAIN local[task[t].kind] /\ local[task[t].kind][id].synced

\* C6: at most one expense push is in flight, and it holds the flag; a call
\* that found the flag set has returned without error, having read, tried and
\* written nothing.
C6_PushGuard ==
  /\ \A t, s \in Tasks :
       (t # s /\ InPush(t, "expenses")) => ~InPush(s, "expenses")
  /\ \A t \in Tasks : InPush(t, "expenses") => syncInProgress
  /\ \A t \in Tasks :
       (task[t].skipped /\ task[t].op = "pushE") =>
         /\ task[t].pc = "done" /\ task[t].res = "ok"
         /\ task[t].read = {} /\ task[t].tried = {} /\ task[t].wrote = {}

\* C6 witness: one push is uploading while an overlapping call was skipped.
C6_Witness ==
  \E t, s \in Tasks :
    /\ t # s
    /\ InPush(t, "expenses") /\ task[t].pc = "pushMark"
    /\ task[s].op = "pushE" /\ task[s].skipped /\ task[s].user = task[t].user

\* C7: a push that reads the unsynced records when the owner's previous push
\* uploaded everything it read, with no local mutation since that push began,
\* reads none and uploads none.
C7_PushIdempotent ==
  \A t \in Tasks :
    task[t].readQuiet =>
      task[t].read = {} /\ task[t].tried = {} /\ task[t].wrote = {}

\* C7 witness: such a second push has ended, after an earlier push uploaded a
\* record of the owner that is now synced and equal to its remote copy.
C7_Witness ==
  \E t \in Tasks :
    /\ task[t].readQuiet /\ PushEnded(t)
    /\ \E id \in DOMAIN local["expenses"] :
         /\ local["expenses"][id].userId = task[t].user
         /\ local["expenses"][id].synced
         /\ id \in DOMAIN remote["expenses"]
         /\ remote["expenses"][id] = local["expenses"][id]

\* C8: a fullSync runs its steps one after the other in the order expense pull,
\* budget pull, expense push, budget push; when it writes a local record to the
\* Remote Store both pulls have been run and have returned.
C8_PullBeforePush ==
  \A t \in Tasks :
    task[t].op = "fullSync" =>
      /\ LET order == <<"pullE", "pullB", "pushE", "pushB">>
         IN Len(task[t].ran) <= Len(order)
              /\ task[t].ran = SubSeq(order, 1, Len(task[t].ran))
      /\ (task[t].pc \in PushPcs \/ task[t].tried # {}) =>
           /\ Len(task[t].ran) >= 3
           /\ task[t].pRes = "ok"

\* C8 witness: a fullSync that pulled a record is uploading a local one.
C8_Witness ==
  \E t \in Tasks :
    /\ task[t].op = "fullSync"
    /\ task[t].pc = "pushMark"
    /\ task[t].pR # {}

\* C9: when the expense pull of a fullSync raises, the budget pull and the
\* budget push of that call still run.
C9_PairsIndependent ==
  \A t \in Tasks :
    (task[t].op = "fullSync" /\ task[t].pc = "done" /\ task[t].raised = "pullE")
      => \E i, j \in 1..Len(task[t].ran) :
           task[t].ran[i] = "pullB" /\ task[t].ran[j] = "pushB"

\* C10: deleteExpense removes the record from the Local Store; it goes on to the
\* remote delete exactly when the device is online; offline it returns without
\* error; and a document leaves the remote collection only through the remote
\* delete of a call that found the device online.
C10_DeleteRecord ==
  [][/\ \A t \in Tasks, id \in Ids :
          DeleteExpense(t, id) =>
            /\ id \notin DOMAIN local'["expenses"]
            /\ remote' = remote
            /\ IF online THEN task'[t].pc = "delRemote"
               ELSE task'[t].pc = "done" /\ task'[t].res = "ok"
     /\ \A id \in DOMAIN remote["expenses"] \ DOMAIN remote'["expenses"] :
          \E t \in Tasks :
            /\ task[t].pc = "delRemote" /\ task[t].id = id /\ task[t].onl = "on"
            /\ task'[t].rdel
    ]_vars

\* C10 witness: an offline delete has returned; the record is gone locally and
\* its remote copy is still there.
C10_Witness ==
  \E t \in Tasks :
    /\ task[t].op = "delete" /\ task[t].onl = "off"
    /\ task[t].pc = "done" /\ task[t].res = "ok" /\ ~task[t].rdel
    /\ task[t].id \notin DOMAIN local["expenses"]
    /\ task[t].id \in DOMAIN remote["expenses"]

\* C11: when a fullSync that began online, after an expense was deleted
\* offline (its remote copy existing), has ended without error, that remote
\* copy is gone.
C11_DeletePropagates ==
  \A t \in Tasks :
    (task[t].op = "fullSync" /\ task[t].pc = "done" /\ task[t].res = "ok")
      => \A id \in task[t].gone0 : id \notin DOMAIN remote["expenses"]

\* C12: an expense whose remote delete succeeded exists neither in the Local
\* Store nor in the Remote Store from then on.
C12_DeleteIrreversible ==
  \A id \in deleted.propagated :
    id \notin DOMAIN local["expenses"] /\ id \notin DOMAIN remote["expenses"]

\* C13: a pull whose fetch returned records completes without error, whatever
\* other pull runs interleaved with it.
C13_OverlappingPulls ==
  \A t \in Tasks : task[t].pR # {} => task[t].pRes # "err"

\* C15: addExpense stores the new record, under an id no store holds, with
\* synced = false and without touching the Remote Store in that step; offline
\* it returns at once without error; it never fails, and when it returns
\* after the remote write of the new record failed, the record, unless the
\* user deleted it meanwhile, is stored locally with synced = false.
C15_LocalFirst ==
  [][/\ \A t \in Tasks, u \in SignedIn, v \in Vals :
          AddExpense(t, u, v) =>
            LET id == FreshId("expenses") IN
            /\ id \notin DOMAIN local["expenses"] \cup DOMAIN remote["expenses"]
            /\ local'["expenses"] =
                 Put(local["expenses"],
                     [id |-> id, userId |-> u, val |-> v, updatedAt |-> now,
                      synced |-> FALSE])
            /\ remote' = remote
            /\ ~online => task'[t].pc = "done" /\ task'[t].res = "ok"
                          /\ task'[t].ran = <<>>
     /\ \A t \in Tasks :
          (task'[t].op = "add" /\ task'[t].pc = "done") =>
            /\ task'[t].res = "ok"
            /\ (/\ task[t].pc # "done"
                /\ task'[t].id \in task'[t].failed
                /\ task'[t].id \in DOMAIN local'["expenses"])
                 => ~local'["expenses"][task'[t].id].synced
    ]_vars

\* C15 witness: an online addExpense has returned without error although the
\* remote write of its record failed; the record is local, unsynced, not remote.
C15_Witness ==
  \E t \in Tasks :
    /\ task[t].op = "add" /\ task[t].pc = "done" /\ task[t].res = "ok"
    /\ task[t].id \in task[t].failed
    /\ task[t].id \in DOMAIN local["expenses"]
    /\ ~local["expenses"][task[t].id].synced
    /\ task[t].id \notin DOMAIN remote["expenses"]

\* C14: manualSync called offline ends at once with the error 'Cannot sync
\* while offline', having entered no pull and no push and changed neither
\* store; called online it enters one fullSync, whose end is its own.
C14_ManualSync ==
  [][\A t \in Tasks, u \in SignedIn :
       ManualSync(t, u) =>
         /\ local' = local /\ remote' = remote
         /\ IF online
            THEN /\ task'[t].op = "fullSync" /\ task'[t].user = u
                 /\ task'[t].phase = 1 /\ task'[t].ran = <<"pullE">>
                 /\ task'[t].pc = "pullFetch"
            ELSE /\ task'[t].pc = "done" /\ task'[t].res = "err"
                 /\ task'[t].raised = "offline"
                 /\ task'[t].ran = <<>> /\ task'[t].tried = {}
                 /\ syncInProgress' = syncInProgress
    ]_vars

\* C14 witness: an offline manualSync has failed with that error while an
\* unsynced expense of the owner waits in the Local Store.
C14_Witness ==
  \E t \in Tasks :
    /\ task[t].op = "manualSync" /\ task[t].pc = "done"
    /\ task[t].res = "err" /\ task[t].raised = "offline"
    /\ ~online
    /\ \E id \in DOMAIN local["expenses"] :
         local["expenses"][id].userId = task[t].user /\ ~local["expenses"][id].synced

\* C16: once the auto-sync fullSync fired by an online transition has ended,
\* with no remote operation of it failed, the device still online and nothing
\* left in flight, every expense of the owner that was unsynced when it began
\* and is still stored is synced and, unless another device has deleted it
\* since, present in the Remote Store.
C16_AutoSyncUploads ==
  \A t \in Tasks :
    (/\ task[t].caller = "autoSync" /\ task[t].pc = "done"
     /\ task[t].failed = {}
     /\ task[t].raised # "" => task[t].pR # {}
     /\ online /\ Settled /\ timers = 0 /\ rt.pc = "idle")
      => \A id \in task[t].unsynced0 \cap DOMAIN local["expenses"] :
           /\ local["expenses"][id].synced
           /\ id \in DOMAIN remote["expenses"] \cup deleted.remotely

\* C17: once an auto-sync fullSync has ended without error in an application
\* that was never torn down, a realtime subscription is active.
C17_AutoSyncTrigger ==
  \A t \in Tasks :
    (/\ task[t].caller = "autoSync" /\ task[t].pc = "done" /\ task[t].res = "ok"
     /\ mounted /\ hist.cleanups = 0)
      => subscriptions > 0

\* C18: one online event sets at most one auto-sync timer, and at most one
\* realtime subscription is active.
C18_SingleListener ==
  [][/\ \A t \in Tasks, u \in SignedIn :
          GoOnline(t, u) => timers' <= timers + 1
     /\ subscriptions' <= 1
    ]_vars

\* C19: after the teardown no realtime subscription is active, and neither the
\* batch handler nor a fullSync started by the auto-sync listener writes to
\* the Local Store.
C19_Teardown ==
  [][(~mounted /\ hist.cleanups > 0) =>
       /\ subscriptions' = 0
       /\ (RtAdd \/ RtDel) => local' = local
       /\ \A t \in Tasks :
            (task[t].caller = "autoSync" /\ PullAdd(t)) => local' = local
    ]_vars

\* C20: the batch handler goes on to insert an added or modified document
\* exactly when the owner's local records do not hold its id, and otherwise
\* leaves the Local Store as it is; its insert stores the document with
\* synced = true and changes nothing else; for a removed document it deletes
\* the local record of that id and changes nothing else; and it does so for
\* each change of the batch, ending only with the last one.
C20_RealtimeBatch ==
  [][/\ RtGet =>
          /\ local' = local
          /\ (rt'.pc = "rtAdd") <=>
               (/\ Head(rt.batch).type \in {"added", "modified"}
                /\ \A r \in Rows(local["expenses"]) :
                     r.userId = rt.user => r.id # Head(rt.batch).doc.id)
     /\ RtAdd =>
          local' = IF Head(rt.batch).doc.id \in DOMAIN local["expenses"] THEN local
                   ELSE [local EXCEPT
                           !["expenses"] =
                             Put(@, [Head(rt.batch).doc EXCEPT !.synced = TRUE])]
     /\ RtDel =>
          /\ Head(rt.batch).type = "removed"
          /\ local' = [local EXCEPT !["expenses"] = Remove(@, Head(rt.batch).doc.id)]
     /\ (rt.pc # "idle" /\ rt'.pc = "idle") => Len(rt.batch) = 1
    ]_vars

\* C21: the handler calls onUpdate for a batch only if the batch changed the
\* Local Store: some change of it inserted a record or deleted one that was
\* stored.
C21_CallbackOnlyOnChange ==
  (rt.pc = "idle" /\ rt.updates > 0)
    => \E i \in 1..Len(rt.done) : rt.done[i][2] \in {"inserted", "deleted"}

\* C22: getSyncStatus reports as unsyncedCount the number of the owner's local
\* records, expenses and budgets, whose synced flag is false, and as isOnline
\* the runtime's connectivity.
C22_SyncStatus ==
  \A u \in SignedIn :
    /\ getSyncStatus(u).unsyncedCount =
         Cardinality({r \in Rows(local["expenses"]) \cup Rows(local["budgets"]) :
                        r.userId = u /\ ~r.synced})
    /\ getSyncStatus(u).isOnline = online

C25_CascadingDelete ==
  [][/\ (del.pc # "delAlerts" /\ del'.pc = "delAlerts") =>
          /\ limits' = Remove(limits, del'.id)
          /\ alerts' = alerts
     /\ (del.pc = "delAlerts" /\ del'.pc = "done" /\ del'.res = "ok") =>
          /\ del.id \notin DOMAIN limits'
          /\ limits' = limits
          /\ \A a \in alerts' : a.budgetId # del.id
          /\ \A a \in alerts : a.budgetId # del.id => a \in alerts'
          /\ alerts' \subseteq alerts]_vars

\* budget h was deleted with its alert while alerts of g and k stay stored
C25_Witness ==
  /\ del.pc = "done" /\ del.res = "ok" /\ del.id = "h"
  /\ "h" \notin DOMAIN limits
  /\ \A a \in alerts : a.budgetId # "h"
  /\ \E a \in alerts : a.budgetId = "g"
  /\ \E a \in alerts : a.budgetId = "k"

\* C26 (no orphan alerts): in every reachable state every stored alert
\* references a budget that exists.
C26_NoOrphanAlerts == \A a \in alerts : a.budgetId \in DOMAIN limits

\* C27 (alert uniqueness): in every reachable state, of the alerts of one
\* budget and one kind that are not dismissed and were created within the last
\* 24 hours there is at most one.
C27_AlertUniqueness ==
  \A a, b \in alerts :
     (/\ a.budgetId = b.budgetId /\ a.type = b.type
      /\ ~a.dismissed /\ ~b.dismissed
      /\ a.createdAt > clock - 24 /\ b.createdAt > clock - 24) => a = b

\* the elements of a sequence
Elements(q) == {q[i] : i \in 1..Len(q)}

\* C28 (alert dedup window): an evaluation that ran with no other call beside
\* it returns, for every active budget of the owner whose spend produces an
\* alert kind, one alert of that kind, stored and undismissed, exactly when no
\* undismissed alert of that budget and kind created within the last 24 hours
\* was stored; it returns nothing else and changes no stored alert.
C28_DedupWindow ==
  [][\A e \in Evals :
       (/\ ev'[e] # ev[e] /\ ev'[e].pc = "done" /\ ev'[e].res = "ok"
        /\ ev'[e].undisturbed) =>
         LET new == Elements(ev'[e].newAlerts)
             old == alerts' \ new
             progress == getBudgetProgress(ev'[e].user, clock)
         IN /\ new \subseteq alerts'
            /\ Cardinality(new) = Len(ev'[e].newAlerts)
            /\ \A n \in new : \E i \in 1..Len(progress) : n.budgetId = progress[i].budgetId
            /\ \A i \in 1..Len(progress) :
                 LET p == progress[i]
                     k == alertTypeOf(p)
                     mine == {n \in new : n.budgetId = p.budgetId}
                     recent == {a \in old : /\ a.budgetId = p.budgetId /\ a.type = k
                                            /\ ~a.dismissed /\ a.createdAt > clock - 24}
                 IN /\ (k = "none" \/ recent # {}) => mine = {}
                    /\ (k # "none" /\ recent = {}) =>
                          /\ Cardinality(mine) = 1
                          /\ \A n \in mine : /\ n.type = k /\ ~n.dismissed
                                             /\ n.createdAt = clock]_vars

\* an evaluation on its own has stored a second alert of a budget and kind
\* whose first alert, not dismissed, is at least 24 hours old
C28_Witness ==
  \E e \in Evals :
     /\ ev[e].pc = "done" /\ ev[e].res = "ok" /\ ev[e].undisturbed
     /\ \E n \in Elements(ev[e].newAlerts), a \in alerts :
          /\ n \in alerts
          /\ a.budgetId = n.budgetId /\ a.type = n.type /\ ~a.dismissed
          /\ a.createdAt <= n.createdAt - 24
          /\ n.createdAt = clock

\* C29 (alert classification): an evaluation reads enabled budgets only, and
\* for a budget it finds it selects, with percentage = spent / limit * 100,
\* the kind exceeded iff percentage >= 100, warning iff warningThreshold <=
\* percentage < 100, approaching iff warningThreshold - 10 <= percentage <
\* warningThreshold, and no kind otherwise.
C29_Classification ==
  [][\A e \in Evals :
       /\ (ev'[e].queue # ev[e].queue /\ ev'[e].queue # <<>>) =>
            \A i \in 1..Len(ev'[e].queue) :
               ev'[e].queue[i].budgetId \in DOMAIN limits =>
                  limits[ev'[e].queue[i].budgetId].enabled
       /\ (/\ ev[e].pc = "getBudget"
           /\ ev'[e].pc # "getBudget" \/ ev'[e].queue # ev[e].queue
           /\ ev'[e].res # "error"
           /\ Head(ev[e].queue).budgetId \in DOMAIN limits) =>
            LET p == Head(ev[e].queue)
                kind == IF p.spent * 100 >= 100 * p.limit THEN "exceeded"
                        ELSE IF p.spent * 100 >= p.warningThreshold * p.limit
                             THEN "warning"
                        ELSE IF p.spent * 100 >= (p.warningThreshold - 10) * p.limit
                             THEN "approaching"
                        ELSE "none"
            IN IF kind = "none" THEN ev'[e].pc # "recent"
               ELSE ev'[e].pc = "recent" /\ ev'[e].alertType = kind]_vars

\* C30 (append-only under evaluation): a step of an evaluation removes no
\* stored alert and changes none; the step that follows addAlert adds the one
\* alert the evaluation built, and every other step leaves the alerts as they
\* are.
C30_AppendOnly ==
  [][(\E e \in Evals : ev'[e].pc # ev[e].pc \/ ev'[e].queue # ev[e].queue) =>
        /\ alerts \subseteq alerts'
        /\ \A e \in Evals :
             (ev[e].pc = "addAlert" /\ ev'[e].pc # "addAlert" /\ ev'[e].res # "error") =>
                /\ ev'[e].newAlerts = Append(ev[e].newAlerts, ev[e].alert)
                /\ alerts' \ alerts = {ev[e].alert}
        /\ (\A e \in Evals : ~(/\ ev[e].pc = "addAlert" /\ ev'[e].pc # "addAlert"
                                 /\ ev'[e].res # "error")) =>
             alerts' = alerts]_vars

\* an evaluation has returned an exceeded alert of a budget whose earlier
\* warning alert is still stored and not dismissed
C30_Witness ==
  \E e \in Evals :
     /\ ev[e].pc = "done"
     /\ \E n \in Elements(ev[e].newAlerts), a \in alerts :
          /\ n \in alerts /\ n.type = "exceeded"
          /\ a.budgetId = n.budgetId /\ a.type = "warning" /\ ~a.dismissed
          /\ a.id < n.id /\ a.percentage < 100

\* C31 (period boundary): for a monthly budget the spend an evaluation
\* computes counts every expense dated the first day of the current month and
\* no expense dated the last day of the month before, at any time of day and
\* under any time-zone offset.
C31_PeriodBoundary ==
  \A e \in Evals :
     (/\ ev[e].pc = "getBudget" /\ ev[e].undisturbed
      /\ Head(ev[e].queue).period = "monthly"
      /\ \A i \in 1..Len(expenses) : expenses[i].date \in {30, 31}) =>
        Head(ev[e].queue).spent =
          SumAmounts(SelectSeq(expensesOf(ev[e].user),
                               LAMBDA x : x.date = 31 * (clock \div 744)))

\* C40 (weekly period start): for a weekly budget the spend an evaluation
\* computes counts exactly the expenses whose date lies between 00:00 of the
\* first day of the current week and now, at any time of day.
C40_WeeklyStart ==
  \A e \in Evals :
     (/\ ev[e].pc = "getBudget" /\ ev[e].undisturbed
      /\ Head(ev[e].queue).period = "weekly") =>
        Head(ev[e].queue).spent =
          SumAmounts(SelectSeq(expensesOf(ev[e].user),
                               LAMBDA x : /\ parseDate(x.date) >= 24 * 7 * ((clock \div 24) \div 7)
                                          /\ parseDate(x.date) <= clock))

C33_NoPartialList ==
  \A e \in Evals :
     ev[e].pc = "done" =>
        /\ ev[e].res = "error" => ev[e].newAlerts = <<>>
        /\ ev[e].res = "ok" => ev[e].newAlerts = ev[e].stored

\* an evaluation stored an alert and then failed
C33_Witness ==
  \E e \in Evals :
     /\ ev[e].pc = "done" /\ ev[e].res = "error"
     /\ ev[e].stored # <<>>
     /\ Elements(ev[e].stored) \subseteq alerts

\* C34 (local storage failure): a public operation whose Local Store
\* operation failed reports a failure to its caller; here, getSyncStatus.
C34_StorageFailure == hist.status.failed => hist.status.res = "error"

\* C35 (updateExpense, local-first then push): when an updateExpense that
\* found the device online returns, and no push was already running, no
\* remote write failed and nothing else changed the owner's expenses during
\* its push, the updated record is synced = true locally and is in the
\* Remote Store.
C35_UpdateThenPush ==
  [][\A t \in Tasks :
       LET tk == task'[t]
           id == tk.id
       IN (/\ task[t].op = "update" /\ task[t].pc # "done"
           /\ tk.op = "update" /\ tk.pc = "done"
           /\ ~tk.skipped /\ tk.failed = {} /\ ~tk.mut
           /\ id \in DOMAIN local'["expenses"])
          => /\ local'["expenses"][id].synced
             /\ id \in DOMAIN remote'["expenses"]]_vars

\* C36 (Idle -> Syncing -> Idle): the sync-in-progress flag is set exactly
\* while an expense push that set it is in flight; it is clear once that push
\* has ended, however it ended, and a call skipped by the guard leaves it set
\* for the push that is running.
C36_FlagCycle ==
  syncInProgress <=> \E t \in Tasks : InPush(t, "expenses")

\* C36 witness: a push has raised and another call was skipped by the guard
\* earlier; the flag is clear and no push is in flight.
C36_Witness ==
  /\ ~syncInProgress
  /\ \E t, s \in Tasks :
       /\ t # s
       /\ task[t].pc = "done" /\ task[t].res = "err" /\ task[t].raised = "pushE"
       /\ task[s].pc = "done" /\ task[s].skipped

\* C37 (budget push overlap): when the budget pushes of two fullSync calls
\* are in flight together, no budget has been uploaded by both.
C37_BudgetPushOverlap ==
  \A t, s \in Tasks :
    (/\ t # s
     /\ task[t].op = "fullSync" /\ task[s].op = "fullSync"
     /\ InPush(t, "budgets") /\ InPush(s, "budgets"))
    => task[t].wrote \cap task[s].wrote = {}

\* C38 (one flag for all owners): a push invoked for owner B while an expense
\* push for another owner is in flight returns at once without error, and
\* that step changes neither store; and a record of B that is unsynced
\* becomes synced = true only by the mark step of a push for B.
C38_SharedFlag ==
  [][/\ \A t, s \in Tasks, u \in Owners :
          (/\ t # s
           /\ InPush(t, "expenses") /\ task[t].user # u
           /\ StartSync(s, u, "pushE"))
          => /\ task'[s].pc = "done" /\ task'[s].res = "ok" /\ task'[s].skipped
             /\ task'[s].read = {} /\ task'[s].tried = {}
             /\ local' = local /\ remote' = remote
     /\ \A id \in DOMAIN local["expenses"] :
          (/\ ~local["expenses"][id].synced
           /\ id \in DOMAIN local'["expenses"]
           /\ local'["expenses"][id].synced)
          => \E t \in Tasks :
               /\ PushMark(t)
               /\ task[t].kind = "expenses"
               /\ task[t].user = local["expenses"][id].userId]_vars

\* C38 witness: a push for u1 is about to upload while the push invoked for
\* u2 has been skipped and u2's record z is still unsynced.
C38_Witness ==
  \E t, s \in Tasks :
    /\ t # s
    /\ InPush(t, "expenses") /\ task[t].user = "u1" /\ task[t].pc = "pushWrite"
    /\ task[s].op = "pushE" /\ task[s].user = "u2" /\ task[s].skipped
    /\ task[s].pc = "done"
    /\ "z" \in DOMAIN local["expenses"] /\ ~local["expenses"]["z"].synced

\* the owner's record ids in a table
OwnIds(tbl) == {id \in DOMAIN tbl : tbl[id].userId \in SignedIn}

\* both Local Stores hold the owner's record ids the Remote Store holds, and
\* every record of the owner is synced on both devices
Converged ==
  \A k \in Kinds :
    /\ OwnIds(local[k]) = OwnIds(remote[k])
    /\ OwnIds(peer.local[k]) = OwnIds(remote[k])
    /\ \A id \in OwnIds(local[k]) : local[k][id].synced
    /\ \A id \in OwnIds(peer.local[k]) : peer.local[k][id].synced

\* one device completed a fullSync, the other completed one, the first
\* completed one more, none with a failure, and no call is in flight
ThreeSyncs ==
  /\ Len(peer.log) = 3
  /\ peer.log[1].dev = peer.log[3].dev /\ peer.log[2].dev # peer.log[1].dev
  /\ \A i \in 1..3 : peer.log[i].ok
  /\ \A t \in Tasks : Free(t) /\ peer.task[t].pc \in {"idle", "done"}

\* C39 as stated (union-merge convergence): once both devices have each
\* completed a fullSync and the first has then completed one more, with no
\* failure, edit or delete, the two Local Stores and the Remote Store hold the
\* same record ids of the owner, all synced = true.
C39_Convergence == ThreeSyncs => Converged

\* C39 amended: the same when no two of the three fullSync calls overlapped,
\* each beginning after the one before it had completed.
C39_SequentialConvergence == (ThreeSyncs /\ ~peer.overlap) => Converged

\* C39 witness: three fullSync calls in turn have brought expenses a and b,
\* created on different devices, to both Local Stores.
C39_Witness ==
  /\ ThreeSyncs /\ ~peer.overlap
  /\ Converged
  /\ {"a", "b"} \subseteq DOMAIN local["expenses"]
  /\ {"a", "b"} \subseteq DOMAIN peer.local["expenses"]

====
